---- MODULE Spec2Model ----
(***************************************************************************)
(* Verification model of the heatwave audio engine (src/audio).            *)
(*                                                                         *)
(* Units.  Frequencies are integers in centi-hertz (1 unit = 0.01 Hz), so  *)
(* the synth's 0.01 Hz glide floor is 1 unit.  A phase is an integer       *)
(* number of ticks with RATE * 100 ticks per turn (2*pi), which makes the  *)
(* per-sample increment 2*pi*f/rate of a frequency of f centi-hertz        *)
(* exactly f ticks.  Volumes are in hundredths.                            *)
(***************************************************************************)
EXTENDS Integers, Sequences, FiniteSets, TLC

(***************************************************************************)
(* Bounds of the model.                                                    *)
(***************************************************************************)
\* channels of the synth under analysis (the program builds 8)
NumChannels == 1
\* audio blocks the synth stream delivers in one behaviour
MaxBlocks == 2

(***************************************************************************)
(* Program constants.                                                      *)
(***************************************************************************)
\* src/audio/audio_core.py:5  RATE = 44100
RATE == 44100
\* src/audio/audio_core.py:9  BUFFER_SIZE = 2048
BUFFER_SIZE == 2048
\* src/audio/audio_core.py:6  AMPLITUDE = 0.1, in hundredths
AMPLITUDE == 10
\* src/audio/synth.py:47  lower clamp 1.0 Hz
FreqMin == 100
\* src/audio/synth.py:47  upper clamp 20000.0 Hz
FreqMax == 2000000
\* src/audio/synth.py:16  initial target and current frequency 110.0 Hz
InitFreq == 11000
\* src/audio/synth.py:22  freq_change_factor = 0.05, in percent
FreqChangePct == 5
\* src/audio/synth.py:94  glide threshold and floor step 0.01 Hz
GlideFloor == 1
\* src/state.py:12  channel volume 1.0, in hundredths
FullVolume == 100
\* src/audio/audio_core.py:7  MASTER_VOLUME = 0.8, in hundredths
MASTER_VOLUME == 80

Channels == 0 .. (NumChannels - 1)
\* channel arguments tried: every valid channel, one below and one above
ChannelArgs == (-1) .. NumChannels
\* ticks per turn: the phase modulus 2*pi
TwoPi == RATE * 100
\* frequencies offered to set_frequency by the synth specification (centi-Hz)
NearFreqs == {10998, 11040}
\* frequencies a channel of the state module may hold (centi-Hz), also out of range
RawFreqs == {-500, 100, 10998, 2000000, 2000001}
\* volumes offered to set_volume
VolumeArgs == {AMPLITUDE}

VARIABLES
    frequencies,               \* ToneSynth.frequencies: target per channel
    current_frequencies,       \* ToneSynth.current_frequencies
    phases,                    \* ToneSynth.phases
    volumes,                   \* ToneSynth.volumes
    muted,                     \* ToneSynth.muted
    error_count,               \* ToneSynth.error_count
    cb_pc,                     \* position of ToneSynth.callback: "idle" | "rendered"
    local_target_frequencies,  \* callback locals, meaningful while cb_pc = "rendered"
    local_current_frequencies,
    local_muted,
    local_phases,
    outdata,                   \* channels summed into the last block ({} = zeros)
    blocks,                    \* callbacks begun so far
    ret,                       \* value returned by the last set_frequency
    last_sample,               \* phase of the last sample delivered per channel, -1 if none
    state_frequency,           \* state.channels[i]['frequency']
    state_volume,              \* state.channels[i]['volume']
    state_mute,                \* state.channels[i]['mute']
    ctl_frequencies,           \* audio_controller.frequencies
    ctl_volumes,               \* audio_controller.volumes
    current_source,            \* audio_controller.current_source
    pm_frequencies,            \* PressureAlgorithmInput.frequencies
    pm_amplitudes,             \* PressureAlgorithmInput.amplitudes
    synth_stream_active,       \* ToneSynth.stream.active
    mic_active,                \* MicInput.active
    mic_stream,                \* MicInput.stream: "none" | "running"
    pm_active,                 \* PressureAlgorithmInput.active
    pm_stream,                 \* PressureAlgorithmInput.stream: "none" | "running"
    pm_volume,                 \* PressureAlgorithmInput.volume, in 1/10000
    pm_time,                   \* PressureAlgorithmInput.time, in blocks
    pcb_pc,                    \* position of PressureAlgorithmInput.callback:
                               \*   "idle" | "active" | "inactive" | "read"
    pcb_time,                  \* the callback's read of targets.time (the += in progress)
    t_active,                  \* PressureTargetSystem.active
    t_time,                    \* PressureTargetSystem.time, in blocks
    t_last_opt_time,           \* PressureTargetSystem.last_optimization_time, in blocks
    t_last_center,             \* PressureTargetSystem.last_center_position, in 1/CenterOne
    t_direction,               \* PressureTargetSystem.direction
    opt_running,               \* PressureTargetSystem.optimization_running
    greenlet,                  \* PressureTargetSystem.optimization_greenlet:
                               \*   "none" | "alive" | "dead"
    last_opt_duration,         \* PressureTargetSystem.last_optimization_duration, in ms
    consecutive_skips,         \* optimization_loop's local counter
    target_center,             \* center of targets.target_pressure, -1 while it is None
    current_solution,          \* PressureAlgorithmInput.current_solution: <<>> is None
    sw_pc,                     \* position of set_audio_source:
                               \*   "idle" | "pm_stop_stream" | "start"
    sw_source,                 \* set_audio_source's argument
    sw_previous,               \* set_audio_source's previous_source
    stopped,                   \* history: stop() has returned and start() was not called since
    stop_saw_stream,           \* history: the stream was active when that stop() ran
    late_solve,                \* history: the loop re-solved or wrote channels while stopped
    skips_in_a_row,            \* history: due re-solves skipped since the last executed one
    solved_center,             \* history: the center at the loop's last re-solve, -1 if none
    set_pc,                    \* position of a pressure-model setter:
                               \*   "idle" | "waiting" | "frequencies_stored"
    set_op,                    \* the setter called: "none" | "set_active_frequencies" | "set_volume"
    set_frequencies,           \* set_active_frequencies' argument frequencies
    set_amplitudes,            \* set_active_frequencies' argument amplitudes
    set_volume_arg,            \* set_volume's argument, in hundredths
    tube_q,                    \* state.tube_params['q_factor']
    pm_q_factor,               \* PressureAlgorithmInput.q_factor
    freq_range,                \* PressureAlgorithmInput.freq_range, in 1/100 Hz
    pressure_matrix,           \* PressureAlgorithmInput.pressure_matrix: one entry per grid
                               \*   row, ZeroRow or the T-network result stored in it
    gen_pc,                    \* position of generate_pressure_matrix: "idle" | "filling"
    gen_row,                   \* rows generate_pressure_matrix has stored so far
    observed,                  \* history: <<grid frequency, row>> pairs the last lookup used
    observed_q,                \* history: tube_params['q_factor'] at that lookup, -1 if none
    lookup_args,               \* the last get_pressure_from_matrix call on a matrix of
                               \*   numbers: <<matrix, frequency, position_index>>, <<>> if none
    lookup_rows,               \* the matrix rows that call read
    lookup_result,             \* its result, as the fraction <<numerator, denominator>>
    pm_physics,                \* PressureAlgorithmInput.tube_length (cm), speed_of_sound,
                               \*   damping_coefficient, reflection_count, hole_size
    response_matrix_cache,     \* ModalDecomposition._response_matrix_cache
    factorization_cache,       \* ModalDecomposition._factorization_cache
    md_result,                 \* history: the outcome of the last decompose_target
    md_calls,                  \* history: decompose_target calls so far
    md_changes,                \* history: physics parameters changed so far
    md_builds,                 \* history: response matrices built so far
    md_factorizations,         \* history: factorizations computed so far
    md_run,                    \* history: the mode count of the last call if it built the
                               \*   matrix and no parameter changed since, else 0
    ap_args,                   \* the last apply_to_channels call's (frequencies, amplitudes)
    ap_result,                 \* its return value: "none" | "True" | "False"
    ap_calls,                  \* history: apply_to_channels calls so far
    notified,                  \* notify_channel_updated calls per channel in the last call
    oa_args,                   \* the last optimize_and_apply call's num_freqs and animated
    oa_calls,                  \* history: optimize_and_apply calls so far
    oa_path,                   \* the branch it returned from: "none" | "modal" | "fallback"
    oa_result,                 \* its return value: "none" | "True" | "False"
    cp_elapsed,                \* the last get_current_center_position call's elapsed_time,
                               \*   in samples (1/RATE s), -1 if none
    cp_center,                 \* the center it returned, in 1/CenterOne
    rf_num_freqs,              \* the last calculate_resonant_frequencies call's num_freqs, -1 if none
    rf_result,                  \* the frequencies it returned, in 1/100 Hz
    pm_blocks,                 \* history: pressure callbacks run to their end or to an exception
    pm_outdata,                \* what the last pressure callback left in outdata: kind and peak (1/10000)
    pm_fault,                  \* history: the last pressure callback met an internal error
    pm_raised,                 \* history: an exception left the last pressure callback
    mic_blocks,                \* history: microphone callbacks run
    mic_outdata,               \* what the last microphone callback left in outdata
    mic_fault,                 \* history: the last microphone callback met an internal error
    mic_raised,                \* history: an exception left the last microphone callback
    underflow_count,            \* MicInput.underflow_count
    start_failed,              \* history: the last start() call met a device failure
    start_returned,            \* what the last start() call returned to set_audio_source
    start_raised,               \* history: the last start() call raised
    tube_call,                  \* the last calculate_resonant_frequencies call on the tube as configured
    clip_source,               \* the callback that rendered the sample examined: "synth" or "pressure"
    clip_settings,             \* what the sample was rendered from
    clip_input,                \* the magnitude handed to soft_clip, in 1/10000
    clip_sample,                \* the magnitude written to outdata, in 1/10000
    sp_signed,                 \* the T-network sums of lines 341-388 per frequency and position, before line 391
    sp_matrix,                 \* the rows calculate_t_network_pressures returned and the matrix stores
    sp_amplitudes,             \* the amplitudes of the last combine_frequency_pressures call
    sp_combined,               \* its weighted sum per position, lines 437-440
    sp_result,                  \* what it returned, lines 442-447
    uv_forwarded,              \* update_volumes: the channels its last call gave to synth.set_volume
    uv_model_updated,          \* update_volumes: whether its last call called update_from_synth_channels
    uv_seen,                   \* the channel volumes and mute flags the last update_volumes call was given
    uv_repeat,                  \* whether the last update_volumes call was given the state the call before it was given
    up_seen,                    \* the channel frequencies the last update_pitches call was given; empty before the first
    ramp_current_freqs,        \* src/synth.py ToneSynth.current_freqs of one channel, in 1/100 Hz
    ramp_target_freqs,         \* ToneSynth.target_freqs
    ramp_interp_start_freqs,   \* ToneSynth.interp_start_freqs
    ramp_interp_times,         \* ToneSynth.interp_times, in samples
    ramp_interp_active,        \* ToneSynth.interp_active
    ramp_first_freq,           \* the frequency of the first sample the last callback rendered; -1 before any
    ramp_last_freq,            \* the frequency of the last sample rendered; -1 before any
    ramp_blocks,                \* callbacks of the linear-ramp synth so far
    reg_lambda,                \* decompose_target: the lambda_reg of the last call, in 1/1000000; -1 before any
    reg_factor_lambda,         \* the lambda_reg each entry of _factorization_cache was formed with, by cache key
    reg_solved_lambda,          \* the lambda_reg of the system the last returned amplitudes solve; -1 when none were returned
    update_callback,           \* state._update_callback: the registered function, or "None"
    registered,                \* the listeners register_update_callback has been called with
    invoked,                   \* the listeners the last notify_channel_updated called
    registrations,             \* register_update_callback calls so far
    notifications,              \* notify_channel_updated calls so far
    pg_frequencies,            \* src/audio.py frequencies: the frequency each channel plays, in 1/100 Hz
    pg_target_frequencies,     \* src/audio.py target_frequencies
    pg_interpolation_active,   \* src/audio.py interpolation_active
    pg_frequency_change_queue, \* src/audio.py frequency_change_queue
    pg_transitions,            \* the target_freq of each transition_completed greenlet spawned and not yet run, per channel, oldest first
    pg_requested,              \* the freq of line 102 in the last update_pitches call, per channel
    pg_requests                \* update_pitches calls so far

tgtVars == <<frequencies, ret>>
volVars == <<volumes, muted>>
cbVars == <<current_frequencies, phases, error_count, cb_pc, local_target_frequencies,
            local_current_frequencies, local_muted, local_phases, outdata, blocks,
            last_sample>>
synthVars == <<tgtVars, volVars, cbVars>>
chanVars == <<state_frequency, state_volume, state_mute>>
ctlVars == <<ctl_frequencies, ctl_volumes>>
activeSetVars == <<pm_frequencies, pm_amplitudes>>
streamVars == <<synth_stream_active, mic_active, mic_stream, pm_active, pm_stream, pm_volume>>
pcbVars == <<pm_time, pcb_pc, pcb_time>>
animVars == <<t_active, t_time, t_last_opt_time, t_last_center, t_direction, opt_running,
              greenlet>>
loopVars == <<last_opt_duration, consecutive_skips, target_center, current_solution>>
swVars == <<sw_pc, sw_source, sw_previous>>
histVars == <<stopped, stop_saw_stream, late_solve, skips_in_a_row, solved_center>>
pressureVars == <<streamVars, pcbVars, animVars, loopVars, swVars, histVars>>
\* everything outside the synth object
nonSynthVars == <<chanVars, ctlVars, current_source, activeSetVars, pressureVars>>
setterVars == <<set_pc, set_op, set_frequencies, set_amplitudes, set_volume_arg>>
\* the state of the pressure model's setters, matrix and decomposition
matVars == <<tube_q, pm_q_factor, freq_range, pressure_matrix, gen_pc, gen_row, observed,
             observed_q>>
lookupVars == <<lookup_args, lookup_rows, lookup_result>>
modalVars == <<pm_physics, response_matrix_cache, factorization_cache, md_result, md_calls,
               md_changes, md_builds, md_factorizations, md_run>>
applyVars == <<ap_args, ap_result, ap_calls, notified, oa_args, oa_calls, oa_path,
               oa_result>>
centerVars == <<cp_elapsed, cp_center>>
\* the state of the pure functions and of the error paths
resonantVars == <<rf_num_freqs, rf_result>>
renderVars == <<pm_blocks, pm_outdata, pm_fault, pm_raised, mic_blocks, mic_outdata, mic_fault, mic_raised, underflow_count>>
startVars == <<start_failed, start_returned, start_raised>>
tubeVars == <<tube_call>>
clipVars == <<clip_source, clip_settings, clip_input, clip_sample>>
superposeVars == <<sp_signed, sp_matrix, sp_amplitudes, sp_combined, sp_result>>
pollVars == <<uv_forwarded, uv_model_updated, uv_seen, uv_repeat>>
pitchCallVars == <<up_seen>>
rampVars == <<ramp_current_freqs, ramp_target_freqs, ramp_interp_start_freqs, ramp_interp_times, ramp_interp_active, ramp_first_freq, ramp_last_freq, ramp_blocks>>
regVars == <<reg_lambda, reg_factor_lambda, reg_solved_lambda>>
listenVars == <<update_callback, registered, invoked, registrations, notifications>>
pygameVars == <<pg_frequencies, pg_target_frequencies, pg_interpolation_active, pg_frequency_change_queue, pg_transitions, pg_requested, pg_requests>>
laterVars == <<centerVars, resonantVars, renderVars, startVars, tubeVars, clipVars, superposeVars, pollVars, pitchCallVars, rampVars, regVars, listenVars, pygameVars>>
\* the later groups other than one of them
otherCenter == <<resonantVars, renderVars, startVars, tubeVars, clipVars, superposeVars, pollVars, pitchCallVars, rampVars, regVars, listenVars, pygameVars>>
otherResonant == <<centerVars, renderVars, startVars, tubeVars, clipVars, superposeVars, pollVars, pitchCallVars, rampVars, regVars, listenVars, pygameVars>>
otherRender == <<centerVars, resonantVars, startVars, tubeVars, clipVars, superposeVars, pollVars, pitchCallVars, rampVars, regVars, listenVars, pygameVars>>
otherStart == <<centerVars, resonantVars, renderVars, tubeVars, clipVars, superposeVars, pollVars, pitchCallVars, rampVars, regVars, listenVars, pygameVars>>
otherTube == <<centerVars, resonantVars, renderVars, startVars, clipVars, superposeVars, pollVars, pitchCallVars, rampVars, regVars, listenVars, pygameVars>>
otherClip == <<centerVars, resonantVars, renderVars, startVars, tubeVars, superposeVars, pollVars, pitchCallVars, rampVars, regVars, listenVars, pygameVars>>
otherSuperpose == <<centerVars, resonantVars, renderVars, startVars, tubeVars, clipVars, pollVars, pitchCallVars, rampVars, regVars, listenVars, pygameVars>>
otherPoll == <<centerVars, resonantVars, renderVars, startVars, tubeVars, clipVars, superposeVars, pitchCallVars, rampVars, regVars, listenVars, pygameVars>>
otherPitchCall == <<centerVars, resonantVars, renderVars, startVars, tubeVars, clipVars, superposeVars, pollVars, rampVars, regVars, listenVars, pygameVars>>
otherRamp == <<centerVars, resonantVars, renderVars, startVars, tubeVars, clipVars, superposeVars, pollVars, pitchCallVars, regVars, listenVars, pygameVars>>
otherReg == <<centerVars, resonantVars, renderVars, startVars, tubeVars, clipVars, superposeVars, pollVars, pitchCallVars, rampVars, listenVars, pygameVars>>
otherListen == <<centerVars, resonantVars, renderVars, startVars, tubeVars, clipVars, superposeVars, pollVars, pitchCallVars, rampVars, regVars, pygameVars>>
otherPygame == <<centerVars, resonantVars, renderVars, startVars, tubeVars, clipVars, superposeVars, pollVars, pitchCallVars, rampVars, regVars, listenVars>>
extVars == <<setterVars, matVars, lookupVars, modalVars, applyVars, laterVars>>
\* what the setters, the matrix and the lookup leave alone
exceptSetter == <<synthVars, matVars, lookupVars, modalVars, applyVars, laterVars>>
exceptMatrix == <<synthVars, nonSynthVars, setterVars, lookupVars, modalVars, applyVars,
                  laterVars>>
exceptLookup == <<synthVars, nonSynthVars, setterVars, matVars, modalVars, applyVars,
                  laterVars>>
exceptModal == <<synthVars, nonSynthVars, setterVars, lookupVars, applyVars, laterVars>>
exceptApply == <<setterVars, matVars, lookupVars, modalVars, laterVars>>
\* everything but laterVars
baseVars == <<synthVars, nonSynthVars, setterVars, matVars, lookupVars, modalVars, applyVars>>
vars == <<synthVars, nonSynthVars, extVars>>

Max(a, b) == IF a >= b THEN a ELSE b
Min(a, b) == IF a <= b THEN a ELSE b
Abs(a) == IF a >= 0 THEN a ELSE -a
Sign(a) == IF a > 0 THEN 1 ELSE -1
\* fixed-point product a * pct / 100, rounded toward zero
PctOf(a, pct) == Sign(a) * ((Abs(a) * pct) \div 100)

\* grid steps of the pressure matrix examined; the code's grid has (500 - 20) / 2 steps
GridIntervals == 3
\* min_matrix_freq, in 1/100 Hz
MatrixMinFreq == 2000
\* freq_resolution as generate_pressure_matrix sets it, in 1/100 Hz
FreqResolution == 200
\* max_matrix_freq, with the grid cut to GridIntervals steps
MaxMatrixFreq == MatrixMinFreq + GridIntervals * FreqResolution
\* generate_pressure_matrix, line 79
FreqCount == ((MaxMatrixFreq - MatrixMinFreq) \div FreqResolution) + 1
\* np.linspace(start, stop, num) for num >= 2
Linspace(start, stop, num) ==
    [i \in 1 .. num |-> start + ((i - 1) * (stop - start)) \div (num - 1)]
\* generate_pressure_matrix, line 80
FreqRange == Linspace(MatrixMinFreq, MaxMatrixFreq, FreqCount)
\* the q_factor the shared tube parameters start with
DefaultQFactor == 5
\* calculate_t_network_pressures(frequency, positions): line 337 divides by q_factor
TNetworkRaises(q_factor) == q_factor = 0
\* calculate_t_network_pressures(frequency, positions) under the model's q_factor; the
\* pressures are kept as the inputs that determine them
CalculateTNetworkPressures(frequency, q_factor) ==
    [frequency |-> frequency, q_factor |-> q_factor]
\* a row of zeros: no calculation is stored in it
ZeroRow == [frequency |-> -1, q_factor |-> -1]
\* np.zeros((len(freq_range), len(positions))), line 83
ZeroMatrix == [i \in 1 .. FreqCount |-> ZeroRow]
\* the matrix after a generation that stored every row, lines 86-91
GeneratedMatrix(q_factor) ==
    [i \in 1 .. FreqCount |-> CalculateTNetworkPressures(FreqRange[i], q_factor)]

\* the physics attributes the pressure model starts with: the reference tube of 1.0 m
\* (in cm) and 343 m/s with 3 reflections
DefaultPhysics ==
    [tube_length |-> 100, speed_of_sound |-> 343, damping_coefficient |-> 1,
     reflection_count |-> 3, hole_size |-> 1]
\* the outcome of a decompose_target call before any call
NoCall ==
    [kind |-> "none", frequencies |-> <<>>, amplitudes |-> <<>>, system |-> <<>>,
     target |-> "None", num_modes |-> 0, physics |-> DefaultPhysics,
     q_factor |-> DefaultQFactor, reused |-> FALSE]

\* apply_to_channels(None, None)
NoArgs == [frequencies |-> <<>>, amplitudes |-> <<>>, none |-> TRUE]

\* src/synth.py:15  the initial frequency 110.0 Hz, in 1/100 Hz
RampInitFreq == 11000

NoLocals == [ch \in Channels |-> 0]
NoLocalFlags == [ch \in Channels |-> FALSE]

Init ==
    /\ frequencies = [ch \in Channels |-> InitFreq]
    /\ current_frequencies = [ch \in Channels |-> InitFreq]
    /\ phases = [ch \in Channels |-> 0]
    /\ volumes = [ch \in Channels |-> AMPLITUDE]
    /\ muted = [ch \in Channels |-> FALSE]
    /\ error_count = 0
    /\ cb_pc = "idle"
    /\ local_target_frequencies = NoLocals
    /\ local_current_frequencies = NoLocals
    /\ local_muted = NoLocalFlags
    /\ local_phases = NoLocals
    /\ outdata = {}
    /\ blocks = 0
    /\ ret = FALSE
    /\ last_sample = [ch \in Channels |-> -1]
    /\ state_frequency = [ch \in Channels |-> InitFreq]
    /\ state_volume = [ch \in Channels |-> FullVolume]
    /\ state_mute = [ch \in Channels |-> ch # 0]
    /\ ctl_frequencies = [ch \in Channels |-> InitFreq]
    /\ ctl_volumes = [ch \in Channels |-> AMPLITUDE]
    /\ current_source = "synth"
    /\ pm_frequencies = <<>>
    /\ pm_amplitudes = <<>>
    /\ synth_stream_active = TRUE
    /\ mic_active = FALSE
    /\ mic_stream = "none"
    /\ pm_active = FALSE
    /\ pm_stream = "none"
    /\ pm_volume = AMPLITUDE * MASTER_VOLUME
    /\ pm_time = 0
    /\ pcb_pc = "idle"
    /\ pcb_time = 0
    /\ t_active = FALSE
    /\ t_time = 0
    /\ t_last_opt_time = 0
    /\ t_last_center = 0
    /\ t_direction = 1
    /\ opt_running = FALSE
    /\ greenlet = "none"
    /\ last_opt_duration = 0
    /\ consecutive_skips = 0
    /\ target_center = -1
    /\ current_solution = <<>>
    /\ sw_pc = "idle"
    /\ sw_source = "synth"
    /\ sw_previous = "synth"
    /\ stopped = FALSE
    /\ stop_saw_stream = FALSE
    /\ late_solve = FALSE
    /\ skips_in_a_row = 0
    /\ solved_center = -1
    /\ set_pc = "idle"
    /\ set_op = "none"
    /\ set_frequencies = <<>>
    /\ set_amplitudes = <<>>
    /\ set_volume_arg = 0
    /\ tube_q = DefaultQFactor
    /\ pm_q_factor = DefaultQFactor
    /\ freq_range = FreqRange
    /\ pressure_matrix = GeneratedMatrix(DefaultQFactor)
    /\ gen_pc = "idle"
    /\ gen_row = FreqCount
    /\ observed = {}
    /\ observed_q = -1
    /\ lookup_args = <<>>
    /\ lookup_rows = {}
    /\ lookup_result = <<0, 1>>
    /\ pm_physics = DefaultPhysics
    /\ response_matrix_cache = <<>>
    /\ factorization_cache = <<>>
    /\ md_result = NoCall
    /\ md_calls = 0
    /\ md_changes = 0
    /\ md_builds = 0
    /\ md_factorizations = 0
    /\ md_run = 0
    /\ ap_args = NoArgs
    /\ ap_result = "none"
    /\ ap_calls = 0
    /\ notified = NoLocals
    /\ oa_args = [num_freqs |-> 0, animated |-> FALSE]
    /\ oa_calls = 0
    /\ oa_path = "none"
    /\ oa_result = "none"
    /\ cp_elapsed = -1
    /\ cp_center = 0
    /\ rf_num_freqs = -1
    /\ rf_result = <<>>
    /\ pm_blocks = 0
    /\ pm_outdata = [kind |-> "none", peak |-> 0]
    /\ pm_fault = FALSE
    /\ pm_raised = FALSE
    /\ mic_blocks = 0
    /\ mic_outdata = "none"
    /\ mic_fault = FALSE
    /\ mic_raised = FALSE
    /\ underflow_count = 0
    /\ start_failed = FALSE
    /\ start_returned = "not_called"
    /\ start_raised = FALSE
    /\ tube_call = [kind |-> "not_called", fundamental |-> 0, num_freqs |-> 0]
    /\ clip_source = "none"
    /\ clip_settings = <<>>
    /\ clip_input = 0
    /\ clip_sample = 0
    /\ sp_signed = <<>>
    /\ sp_matrix = <<>>
    /\ sp_amplitudes = <<>>
    /\ sp_combined = <<>>
    /\ sp_result = <<>>
    /\ uv_forwarded = {}
    /\ uv_model_updated = FALSE
    /\ uv_seen = <<>>
    /\ uv_repeat = FALSE
    /\ up_seen = <<>>
    /\ ramp_current_freqs = RampInitFreq
    /\ ramp_target_freqs = RampInitFreq
    /\ ramp_interp_start_freqs = RampInitFreq
    /\ ramp_interp_times = 0
    /\ ramp_interp_active = FALSE
    /\ ramp_first_freq = -1
    /\ ramp_last_freq = -1
    /\ ramp_blocks = 0
    /\ reg_lambda = -1
    /\ reg_factor_lambda = <<>>
    /\ reg_solved_lambda = -1
    /\ update_callback = "None"
    /\ registered = {}
    /\ invoked = {}
    /\ registrations = 0
    /\ notifications = 0
    /\ pg_frequencies = [ch \in Channels |-> InitFreq]
    /\ pg_target_frequencies = [ch \in Channels |-> InitFreq]
    /\ pg_interpolation_active = [ch \in Channels |-> FALSE]
    /\ pg_frequency_change_queue = [ch \in Channels |-> <<>>]
    /\ pg_transitions = [ch \in Channels |-> <<>>]
    /\ pg_requested = [ch \in Channels |-> InitFreq]
    /\ pg_requests = 0

(***************************************************************************)
(* ToneSynth (src/audio/synth.py)                                          *)
(***************************************************************************)
\* the clamp without its upper bound
Clamp_NoUpperBound(freq) == Max(FreqMin, freq)
\* freq = max(1.0, min(20000.0, freq))
Clamp(freq) == Max(FreqMin, Min(FreqMax, freq))

\* the target array after set_frequency(channel, freq)
SetFrequencyTargets(targets, channel, freq) ==
    IF channel \in Channels /\ targets[channel] # Clamp(freq)
    THEN [targets EXCEPT ![channel] = Clamp(freq)]
    ELSE targets

\* the value set_frequency(channel, freq) returns
SetFrequencyReturn(targets, channel, freq) ==
    channel \in Channels /\ targets[channel] # Clamp(freq)

SetFrequency(channel, freq) ==
    /\ frequencies' = SetFrequencyTargets(frequencies, channel, freq)
    /\ ret' = SetFrequencyReturn(frequencies, channel, freq)
    /\ UNCHANGED <<current_frequencies, phases, volumes, muted, error_count, cb_pc,
                   local_target_frequencies, local_current_frequencies, local_muted,
                   local_phases, outdata, blocks, last_sample>>
    /\ UNCHANGED nonSynthVars
    /\ UNCHANGED extVars

SetVolume(channel, volume, mute) ==
    /\ IF channel \in Channels
       THEN /\ volumes' = [volumes EXCEPT ![channel] = volume]
            /\ muted' = [muted EXCEPT ![channel] = mute]
       ELSE UNCHANGED <<volumes, muted>>
    /\ UNCHANGED <<frequencies, current_frequencies, phases, error_count, cb_pc,
                   local_target_frequencies, local_current_frequencies, local_muted,
                   local_phases, outdata, blocks, ret, last_sample>>
    /\ UNCHANGED nonSynthVars
    /\ UNCHANGED extVars

\* the glide replaced by an instantaneous jump to the target
GlideStep_Jump(current_freq, target_freq) == target_freq

\* the glide without its floor step
GlideStep_NoFloor(current_freq, target_freq) ==
    IF Abs(current_freq - target_freq) > GlideFloor
    THEN current_freq + PctOf(target_freq - current_freq, FreqChangePct)
    ELSE target_freq

\* lines 94-112: the frequency used for this block
GlideStep(current_freq, target_freq) ==
    IF Abs(current_freq - target_freq) > GlideFloor
    THEN LET diff == target_freq - current_freq
             change == PctOf(diff, FreqChangePct)
         IN  IF Abs(change) < GlideFloor
             THEN current_freq + GlideFloor * Sign(diff)
             ELSE current_freq + change
    ELSE target_freq

\* line 118: phase_inc = 2 * pi * freq / rate, in ticks
PhaseInc(freq) == freq

\* line 119: phase of sample k of a block that starts at phase p
SamplePhase(p, freq, k) == p + k * PhaseInc(freq)

\* the stored phase without the wrap to [0, 2*pi)
StoredPhase_NoWrap(p, freq, frames) == p + (frames - 1) * freq

\* line 126: the phase stored for the next block
StoredPhase(p, freq, frames) == SamplePhase(p, freq, frames - 1) % TwoPi

\* a render that glides and advances the muted channels as well
CallbackRender_GlidesMuted ==
    /\ cb_pc = "idle"
    /\ synth_stream_active
    /\ blocks < MaxBlocks
    /\ blocks' = blocks + 1
    /\ local_target_frequencies' = frequencies
    /\ local_muted' = muted
    /\ local_current_frequencies' =
           [ch \in Channels |-> GlideStep(current_frequencies[ch], frequencies[ch])]
    /\ local_phases' =
           [ch \in Channels |->
               StoredPhase(phases[ch], GlideStep(current_frequencies[ch], frequencies[ch]),
                           BUFFER_SIZE)]
    /\ outdata' = {ch \in Channels : ~muted[ch]}
    /\ cb_pc' = "rendered"
    /\ UNCHANGED <<frequencies, current_frequencies, phases, volumes, muted,
                   error_count, ret, last_sample>>
    /\ UNCHANGED nonSynthVars
    /\ UNCHANGED extVars

\* lines 70-132 without error: snapshot under the lock, DSP on the locals, output
CallbackRender ==
    /\ cb_pc = "idle"
    /\ synth_stream_active
    /\ blocks < MaxBlocks
    /\ blocks' = blocks + 1
    /\ local_target_frequencies' = frequencies
    /\ local_muted' = muted
    /\ local_current_frequencies' =
           [ch \in Channels |->
               IF muted[ch] THEN current_frequencies[ch]
               ELSE GlideStep(current_frequencies[ch], frequencies[ch])]
    /\ local_phases' =
           [ch \in Channels |->
               IF muted[ch] THEN phases[ch]
               ELSE StoredPhase(phases[ch],
                                GlideStep(current_frequencies[ch], frequencies[ch]),
                                BUFFER_SIZE)]
    /\ outdata' = {ch \in Channels : ~muted[ch]}
    /\ cb_pc' = "rendered"
    /\ UNCHANGED <<frequencies, current_frequencies, phases, volumes, muted,
                   error_count, ret, last_sample>>
    /\ UNCHANGED nonSynthVars
    /\ UNCHANGED extVars

\* a write-back that also stores the targets and mute flags the callback had copied
CallbackWriteback_StoresSnapshot ==
    /\ cb_pc = "rendered"
    /\ phases' = local_phases
    /\ current_frequencies' = local_current_frequencies
    /\ frequencies' = local_target_frequencies
    /\ muted' = local_muted
    /\ last_sample' =
           [ch \in Channels |->
               IF local_muted[ch] THEN last_sample[ch]
               ELSE SamplePhase(phases[ch], local_current_frequencies[ch],
                                BUFFER_SIZE - 1) % TwoPi]
    /\ cb_pc' = "idle"
    /\ local_target_frequencies' = NoLocals
    /\ local_current_frequencies' = NoLocals
    /\ local_muted' = NoLocalFlags
    /\ local_phases' = NoLocals
    /\ UNCHANGED <<volumes, error_count, outdata, blocks, ret>>
    /\ UNCHANGED nonSynthVars
    /\ UNCHANGED extVars

\* lines 134-140: write phases and current frequencies back under the lock
CallbackWriteback ==
    /\ cb_pc = "rendered"
    /\ phases' = local_phases
    /\ current_frequencies' = local_current_frequencies
    /\ last_sample' =
           [ch \in Channels |->
               IF local_muted[ch] THEN last_sample[ch]
               ELSE SamplePhase(phases[ch], local_current_frequencies[ch],
                                BUFFER_SIZE - 1) % TwoPi]
    /\ cb_pc' = "idle"
    /\ local_target_frequencies' = NoLocals
    /\ local_current_frequencies' = NoLocals
    /\ local_muted' = NoLocalFlags
    /\ local_phases' = NoLocals
    /\ UNCHANGED <<frequencies, volumes, muted, error_count, outdata, blocks, ret>>
    /\ UNCHANGED nonSynthVars
    /\ UNCHANGED extVars

\* the error path leaving the advanced phases behind
CallbackError_KeepsPhases ==
    /\ cb_pc = "idle"
    /\ synth_stream_active
    /\ blocks < MaxBlocks
    /\ blocks' = blocks + 1
    /\ outdata' = {}
    /\ error_count' = error_count + 1
    /\ phases' = [ch \in Channels |-> (phases[ch] + frequencies[ch]) % (RATE * 100)]
    /\ UNCHANGED <<frequencies, current_frequencies, volumes, muted, cb_pc,
                   local_target_frequencies, local_current_frequencies, local_muted,
                   local_phases, ret, last_sample>>
    /\ UNCHANGED nonSynthVars
    /\ UNCHANGED extVars

\* lines 68, 142-147: an exception inside the try block, raised before the write-back
CallbackError ==
    /\ cb_pc = "idle"
    /\ synth_stream_active
    /\ blocks < MaxBlocks
    /\ blocks' = blocks + 1
    /\ outdata' = {}
    /\ error_count' = error_count + 1
    /\ UNCHANGED <<frequencies, current_frequencies, phases, volumes, muted, cb_pc,
                   local_target_frequencies, local_current_frequencies, local_muted,
                   local_phases, ret, last_sample>>
    /\ UNCHANGED nonSynthVars
    /\ UNCHANGED extVars

SynthNext ==
    \/ \E ch \in ChannelArgs, f \in NearFreqs : SetFrequency(ch, f)
    \/ \E ch \in ChannelArgs, v \in VolumeArgs, m \in BOOLEAN : SetVolume(ch, v, m)
    \/ CallbackRender
    \/ CallbackWriteback
    \/ CallbackError

SynthSpec == Init /\ [][SynthNext]_vars

(***************************************************************************)
(* Channel state (src/state.py) and the controller                         *)
(* (src/audio/audio_controller.py)                                         *)
(***************************************************************************)
\* update_pitches, update_from_synth_channels: max(1, channel['frequency'])
AtLeastOneHz(freq) == Max(FreqMin, freq)

\* a MIDI or web writer stores a frequency in the channel state
ChannelSetFrequency(channel, freq) ==
    /\ channel \in Channels
    /\ state_frequency' = [state_frequency EXCEPT ![channel] = freq]
    /\ UNCHANGED <<state_volume, state_mute>>
    /\ UNCHANGED <<synthVars, ctlVars, current_source, activeSetVars, pressureVars>>
    /\ UNCHANGED extVars

ChannelSeq == [k \in 1 .. NumChannels |-> k - 1]
IsSounding(ch) == ~state_mute[ch] /\ state_volume[ch] > 0
SoundingChannels == SelectSeq(ChannelSeq, IsSounding)

\* update_from_synth_channels: the frequency list it installs
SynthChannelFrequencies ==
    [k \in 1 .. Len(SoundingChannels) |-> AtLeastOneHz(state_frequency[SoundingChannels[k]])]
\* update_from_synth_channels: the amplitude list it installs
SynthChannelAmplitudes ==
    [k \in 1 .. Len(SoundingChannels) |-> state_volume[SoundingChannels[k]]]

\* update_pitches: freq != frequencies[i]
PitchChanged(ch) == AtLeastOneHz(state_frequency[ch]) # ctl_frequencies[ch]

\* update_pitches: the synth targets after its set_frequency calls
UpdatePitchesTargets ==
    [ch \in Channels |->
        IF PitchChanged(ch)
        THEN SetFrequencyTargets(frequencies, ch, AtLeastOneHz(state_frequency[ch]))[ch]
        ELSE frequencies[ch]]

\* update_pitches(state.channels), as the polling loop of main.py calls it
UpdatePitches ==
    /\ sw_pc = "idle"
    /\ ((\E ch \in Channels : PitchChanged(ch)) /\ current_source = "pressure") =>
           pcb_pc = "idle"
    /\ ctl_frequencies' = [ch \in Channels |-> AtLeastOneHz(state_frequency[ch])]
    /\ frequencies' = UpdatePitchesTargets
    /\ IF (\E ch \in Channels : PitchChanged(ch)) /\ current_source = "pressure"
       THEN /\ pm_frequencies' = SynthChannelFrequencies
            /\ pm_amplitudes' = SynthChannelAmplitudes
       ELSE UNCHANGED activeSetVars
    /\ UNCHANGED <<ret, volVars, cbVars, chanVars, ctl_volumes, current_source, pressureVars>>
    /\ UNCHANGED extVars

PitchNext ==
    \/ \E ch \in ChannelArgs, f \in RawFreqs : SetFrequency(ch, f)
    \/ \E ch \in Channels, f \in RawFreqs : ChannelSetFrequency(ch, f)
    \/ UpdatePitches

PitchSpec == Init /\ [][PitchNext]_vars

(***************************************************************************)
(* update_volumes (src/audio/audio_controller.py)                          *)
(***************************************************************************)
\* line 115: volume = channel['volume'] if not channel['mute'] else 0
ChannelVolume(ch) == IF state_mute[ch] THEN 0 ELSE state_volume[ch]

\* line 119: volume != volumes[i] or muted != (volumes[i] == 0)
VolumeChanged(ch) ==
    \/ ChannelVolume(ch) # ctl_volumes[ch]
    \/ state_mute[ch] # (ctl_volumes[ch] = 0)

\* lines 121-123: the cache and the synth after the loop over the channels
UpdateVolumesCache ==
    [ch \in Channels |-> IF VolumeChanged(ch) THEN ChannelVolume(ch) ELSE ctl_volumes[ch]]
UpdateVolumesSynthVolumes ==
    [ch \in Channels |-> IF VolumeChanged(ch) THEN ChannelVolume(ch) ELSE volumes[ch]]
UpdateVolumesSynthMuted ==
    [ch \in Channels |-> IF VolumeChanged(ch) THEN state_mute[ch] ELSE muted[ch]]

(***************************************************************************)
(* The animated target (src/audio/pressure_targets.py) and the pressure    *)
(* model (src/audio/pressure_algorithm.py).  Animation time counts audio   *)
(* blocks (BUFFER_SIZE / RATE seconds each); a center position c in [0, 1] *)
(* is the integer c * CenterOne.                                           *)
(***************************************************************************)
\* src/audio/pressure_targets.py:20  duration = 30.0 s
AnimDuration == 30
\* src/audio/pressure_targets.py:22  optimization_interval = 1.0 s, in ms
OptimizationInterval == 1000
\* src/audio/pressure_targets.py:34  position_threshold = 0.2, in percent
PositionThresholdPct == 20
\* src/audio/pressure_targets.py:36  max_cpu_percent = 0.3, in percent
MaxCpuPct == 30
\* src/audio/pressure_targets.py:153  max_consecutive_skips = 2
MaxConsecutiveSkips == 2
\* src/audio/pressure_targets.py:184  num_freqs of a reduced re-solve
ReducedNumFreqs == 2
\* src/audio/pressure_targets.py:192  num_freqs of a normal re-solve
NormalNumFreqs == 4
\* src/audio/audio_controller.py:73  num_freqs of the initial set-up
SetupNumFreqs == 8
\* src/audio/pressure_algorithm.py:463  lower edge of the band, 20 Hz
BandMin == 2000
\* src/audio/pressure_algorithm.py:463  upper edge of the band, 500 Hz
BandMax == 50000
\* src/audio/audio_controller.py:63  set_volume(0.8), in hundredths
DefaultPressureVolume == 80
\* src/audio/audio_controller.py:62  current_volume < 0.1, in hundredths
LowVolume == 10

\* samples in one sweep of the center from 0 to 1
CenterOne == AnimDuration * RATE

\* get_current_center_position, lines 83-93
CyclePosition(t) == (t * BUFFER_SIZE) % (2 * CenterOne)
Center(t) ==
    IF CyclePosition(t) > CenterOne THEN 2 * CenterOne - CyclePosition(t)
    ELSE CyclePosition(t)
Direction(t) == IF CyclePosition(t) > CenterOne THEN -1 ELSE 1

\* create_target_pressure(profile): the default center=0.5
StaticCenter == CenterOne \div 2

\* optimization_loop, line 168: the re-solve is due
IsDue(t, last_t, last_center) ==
    \/ Abs(Center(t) - last_center) * 100 >= PositionThresholdPct * CenterOne
    \/ (t - last_t) * BUFFER_SIZE * 1000 >= OptimizationInterval * RATE

\* optimization_loop, line 178: the previous solve was slow
WasSlow(duration) == duration * 100 >= OptimizationInterval * MaxCpuPct

\* optimization_loop, line 220: the solve was exceptionally slow
WasVerySlow(duration) == duration * 100 * 10 > OptimizationInterval * MaxCpuPct * 15

\* optimization_loop, line 223: the duration stored after an exceptionally slow solve
ForgivenDuration == (OptimizationInterval * MaxCpuPct * 8) \div 1000

\* c / (2 L) for the tube of the reference scenario (343 m/s, 1.0 m): 171.5 Hz
Fundamental == 17150

\* calculate_resonant_frequencies, line 463
InBand(freq) == freq >= BandMin /\ freq <= BandMax

\* calculate_resonant_frequencies, lines 459-464: the first num_freqs harmonics in the band
Harmonics(num_freqs) ==
    LET inband == SelectSeq([n \in 1 .. (2 * num_freqs - 1) |-> n * Fundamental], InBand)
    IN  SubSeq(inband, 1, Min(num_freqs, Len(inband)))

\* calculate_resonant_frequencies, lines 467-473: fractions of the fundamental, put in front
RECURSIVE AddLower(_, _)
AddLower(freqs, num_freqs) ==
    IF Len(freqs) < num_freqs /\ Fundamental \div (Len(freqs) + 2) >= BandMin
    THEN AddLower(<<Fundamental \div (Len(freqs) + 2)>> \o freqs, num_freqs)
    ELSE freqs

\* calculate_resonant_frequencies, lines 479-482: every entry but the first is detuned;
\* detune is the random factor in 1/1000, one draw standing for the per-entry draws
Detuned(freqs, detune) ==
    [i \in 1 .. Len(freqs) |->
        IF i = 1 THEN freqs[i] ELSE (freqs[i] * (1000 + detune)) \div 1000]

IsLess(a, b) == a < b

\* calculate_resonant_frequencies
ResonantFrequencies(num_freqs, detune) ==
    LET lower == AddLower(Harmonics(num_freqs), num_freqs)
        cut == SubSeq(lower, 1, Min(num_freqs, Len(lower)))
    IN  SortSeq(Detuned(cut, detune), IsLess)

\* find_optimal_frequencies, lines 502-503: the target is created only while it is None
TargetAfterSolve == IF target_center = -1 THEN StaticCenter ELSE target_center

\* find_optimal_frequencies, lines 512-517: the stored solution
SolutionOf(num_freqs, detune) ==
    <<[frequencies |-> ResonantFrequencies(num_freqs, detune), target |-> TargetAfterSolve]>>

\* apply_solution_to_synth_channels, lines 253-269, for the solution's frequency list
AppliedFrequency(freqs) ==
    [ch \in Channels |-> IF ch < Len(freqs) THEN freqs[ch + 1] ELSE state_frequency[ch]]
AppliedVolume(freqs) ==
    [ch \in Channels |-> IF ch < Len(freqs) THEN FullVolume ELSE state_volume[ch]]
AppliedMute(freqs) == [ch \in Channels |-> ~(ch < Len(freqs))]

\* PressureAlgorithmInput.callback, line 200 to 212: takes the lock and tests targets.active
PressureCallbackBegin(cap) ==
    /\ pm_stream = "running"
    /\ pcb_pc = "idle"
    /\ set_pc # "frequencies_stored"
    /\ t_time < cap
    /\ pm_time < cap
    /\ pcb_pc' = IF t_active THEN "active" ELSE "inactive"
    /\ UNCHANGED <<pm_time, pcb_time>>
    /\ UNCHANGED <<synthVars, chanVars, ctlVars, current_source, activeSetVars>>
    /\ UNCHANGED <<streamVars, animVars, loopVars, swVars, histVars>>
    /\ UNCHANGED extVars

\* PressureAlgorithmInput.callback, line 215: the read of self.targets.time += ...
PressureCallbackReadTime ==
    /\ pcb_pc = "active"
    /\ pcb_time' = t_time
    /\ pcb_pc' = "read"
    /\ UNCHANGED pm_time
    /\ UNCHANGED <<synthVars, chanVars, ctlVars, current_source, activeSetVars>>
    /\ UNCHANGED <<streamVars, animVars, loopVars, swVars, histVars>>
    /\ UNCHANGED extVars

\* PressureAlgorithmInput.callback, lines 215-260: the write of targets.time, the
\* center (which sets direction), the block's samples, and the release of the lock
PressureCallbackFinish ==
    /\ pcb_pc \in {"read", "inactive"}
    /\ IF pcb_pc = "read"
       THEN /\ t_time' = pcb_time + 1
            /\ t_direction' = Direction(pcb_time + 1)
       ELSE UNCHANGED <<t_time, t_direction>>
    /\ pm_time' = IF Len(pm_frequencies) = 0 \/ Len(pm_amplitudes) = 0
                  THEN pm_time ELSE pm_time + 1
    /\ pcb_pc' = "idle"
    /\ pcb_time' = 0
    /\ UNCHANGED <<t_active, t_last_opt_time, t_last_center, opt_running, greenlet>>
    /\ UNCHANGED <<synthVars, chanVars, ctlVars, current_source, activeSetVars>>
    /\ UNCHANGED <<streamVars, loopVars, swVars, histVars>>
    /\ UNCHANGED extVars

(***************************************************************************)
(* set_audio_source (src/audio/audio_controller.py), in the steps at which *)
(* the audio threads can observe it.  The steps of one call run on the     *)
(* gevent thread without yielding.                                         *)
(***************************************************************************)
Sources == {"synth", "mic", "pressure"}
\* the names set_audio_source is called with: a client's string, which may name no source
SourceNames == Sources \cup {"other"}
\* how opening and starting a device stream ends
StartOutcomes == {"ok", "create_fails", "start_fails"}

\* stop_animation and reset, pressure_targets.py lines 127-144; a dead greenlet is
\* falsy, so its handle is kept
StopAnimation ==
    /\ opt_running' = FALSE
    /\ greenlet' = IF greenlet = "alive" THEN "none" ELSE greenlet
    /\ t_active' = FALSE
    /\ t_time' = 0
    /\ t_last_opt_time' = 0
    /\ t_last_center' = 0
    /\ t_direction' = 1

\* set_audio_source, lines 26-42: the early return, and the stop of the current source
\* (of PressureAlgorithmInput.stop, the stop_animation call of line 167)
SetAudioSourceBegin(source) ==
    /\ sw_pc = "idle"
    /\ source \in SourceNames
    /\ LET switching == source # current_source
           stop_synth == switching /\ current_source = "synth" /\ synth_stream_active
           stop_mic == switching /\ current_source = "mic" /\ mic_active
           stop_pm == switching /\ current_source = "pressure" /\ pm_active
       IN  /\ stop_synth => cb_pc = "idle"
           /\ sw_pc' = IF ~switching THEN "idle"
                       ELSE IF stop_pm THEN "pm_stop_stream" ELSE "start"
           /\ sw_source' = IF switching THEN source ELSE sw_source
           /\ sw_previous' = IF switching THEN current_source ELSE sw_previous
           /\ synth_stream_active' = IF stop_synth THEN FALSE ELSE synth_stream_active
           /\ IF stop_mic /\ mic_stream = "running"
              THEN mic_stream' = "none" /\ mic_active' = FALSE
              ELSE UNCHANGED <<mic_stream, mic_active>>
           /\ IF stop_pm THEN StopAnimation ELSE UNCHANGED animVars
    /\ UNCHANGED <<pm_active, pm_stream, pm_volume>>
    /\ UNCHANGED <<synthVars, chanVars, ctlVars, current_source, activeSetVars>>
    /\ UNCHANGED <<pcbVars, loopVars, histVars>>
    /\ UNCHANGED extVars

\* the stop that leaves the pressure stream running
PressureStopStream_KeepsStream ==
    /\ sw_pc = "pm_stop_stream"
    /\ stopped' = TRUE
    /\ stop_saw_stream' = (pm_stream = "running")
    /\ sw_pc' = "start"
    /\ UNCHANGED <<streamVars, sw_source, sw_previous, late_solve, skips_in_a_row,
                   solved_center>>
    /\ UNCHANGED <<synthVars, chanVars, ctlVars, current_source, activeSetVars>>
    /\ UNCHANGED <<pcbVars, animVars, loopVars>>
    /\ UNCHANGED extVars

\* PressureAlgorithmInput.stop, lines 169-174: stream.stop() returns once the callback
\* in progress has finished
PressureStopStream ==
    /\ sw_pc = "pm_stop_stream"
    /\ pm_stream = "running" => pcb_pc = "idle"
    /\ IF pm_stream = "running"
       THEN pm_stream' = "none" /\ pm_active' = FALSE
       ELSE UNCHANGED <<pm_stream, pm_active>>
    /\ stopped' = TRUE
    /\ stop_saw_stream' = (pm_stream = "running")
    /\ sw_pc' = "start"
    /\ UNCHANGED <<synth_stream_active, mic_active, mic_stream, pm_volume>>
    /\ UNCHANGED <<sw_source, sw_previous, late_solve, skips_in_a_row, solved_center>>
    /\ UNCHANGED <<synthVars, chanVars, ctlVars, current_source, activeSetVars>>
    /\ UNCHANGED <<pcbVars, animVars, loopVars>>
    /\ UNCHANGED extVars

\* the set-up call of lines 71-75, configure_model_and_apply_frequencies(profile="gaussian",
\* num_freqs=8, animated=True): no source file defines the method; it is taken to install
\* the resonant set and to enable the animation, as optimize_and_apply
\* (pressure_algorithm.py lines 525-560) does with animated=True
ConfiguredFrequencies(detune) == ResonantFrequencies(SetupNumFreqs, detune)
ConfiguredAmplitudes(detune) ==
    [i \in 1 .. Len(ConfiguredFrequencies(detune)) |-> FullVolume]

\* set_audio_source, lines 45-79: the start of the requested source.
\*   outcome     how the device stream of the requested source opens and starts
\*   configured  the set-up call of line 71 returns (TRUE) or raises (FALSE)
\*   detune      the random detune of the set-up's frequencies
\* with, of the calls it makes: update_pitches and update_volumes (lines 109-158, while
\* current_source is still 'pressure'), MicInput.start (mic_input.py lines 118-146),
\* PressureAlgorithmInput.start (pressure_algorithm.py lines 126-162) and
\* start_animation (pressure_targets.py lines 115-125)
SetAudioSourceStartBody(outcome, configured, detune) ==
    /\ sw_pc = "start"
    /\ sw_pc' = "idle"
    /\ LET to_synth == sw_source = "synth"
           to_mic == sw_source = "mic"
           to_pm == sw_source = "pressure"
           resync == to_synth /\ sw_previous = "pressure"
           changed == resync /\ \E ch \in Channels : PitchChanged(ch) \/ VolumeChanged(ch)
           cfg == to_pm /\ configured
           opens == cfg /\ pm_stream # "running"
           pm_starts == opens /\ outcome # "create_fails"
           spawns == pm_starts /\ ~opt_running
       IN  /\ frequencies' = IF resync THEN UpdatePitchesTargets ELSE frequencies
           /\ ctl_frequencies' =
                  IF resync THEN [ch \in Channels |-> AtLeastOneHz(state_frequency[ch])]
                  ELSE ctl_frequencies
           /\ ctl_volumes' = IF resync THEN UpdateVolumesCache ELSE ctl_volumes
           /\ volumes' = IF resync THEN UpdateVolumesSynthVolumes ELSE volumes
           /\ muted' = IF resync THEN UpdateVolumesSynthMuted ELSE muted
           /\ pm_frequencies' = IF changed THEN SynthChannelFrequencies
                                ELSE IF cfg THEN ConfiguredFrequencies(detune)
                                ELSE pm_frequencies
           /\ pm_amplitudes' = IF changed THEN SynthChannelAmplitudes
                               ELSE IF cfg THEN ConfiguredAmplitudes(detune)
                               ELSE pm_amplitudes
           /\ synth_stream_active' =
                  IF to_synth /\ outcome = "ok" THEN TRUE ELSE synth_stream_active
           /\ IF to_mic /\ mic_stream # "running"
              THEN /\ mic_stream' = IF outcome = "ok" THEN "running" ELSE "none"
                   /\ mic_active' = (outcome = "ok")
              ELSE UNCHANGED <<mic_stream, mic_active>>
           /\ current_source' = IF to_synth /\ outcome = "ok" THEN "synth"
                                ELSE IF to_mic THEN "mic"
                                ELSE IF cfg THEN "pressure"
                                ELSE current_source
           /\ pm_volume' = IF to_pm /\ pm_volume < LowVolume * MASTER_VOLUME
                           THEN DefaultPressureVolume * MASTER_VOLUME ELSE pm_volume
           /\ target_center' = IF cfg THEN StaticCenter ELSE target_center
           /\ pm_active' = IF opens THEN outcome = "ok" ELSE pm_active
           /\ pm_stream' = IF opens THEN (IF outcome = "ok" THEN "running" ELSE "none")
                           ELSE pm_stream
           /\ pm_time' = IF pm_starts THEN 0 ELSE pm_time
           /\ t_active' = IF cfg THEN TRUE ELSE t_active
           /\ t_time' = IF pm_starts THEN 0 ELSE t_time
           /\ t_last_opt_time' = IF pm_starts THEN 0 ELSE t_last_opt_time
           /\ t_last_center' = IF pm_starts THEN 0 ELSE t_last_center
           /\ opt_running' = IF pm_starts THEN TRUE ELSE opt_running
           /\ greenlet' = IF spawns THEN "alive" ELSE greenlet
           /\ consecutive_skips' = IF spawns THEN 0 ELSE consecutive_skips
           /\ skips_in_a_row' = IF spawns THEN 0 ELSE skips_in_a_row
           /\ stopped' = IF cfg THEN FALSE ELSE stopped
    /\ UNCHANGED <<ret, cbVars, chanVars, pcb_pc, pcb_time, t_direction>>
    /\ UNCHANGED <<last_opt_duration, current_solution, sw_source, sw_previous>>
    /\ UNCHANGED <<stop_saw_stream, late_solve, solved_center>>

SetAudioSourceStart(outcome, configured, detune) ==
    /\ SetAudioSourceStartBody(outcome, configured, detune)
    /\ UNCHANGED extVars

\* how long a solve takes, in ms: fast, slow, exceptionally slow
SolveDurations == {100, 350, 500}
\* the random detune factors drawn, in 1/1000
Detunes == {-15, 0}

\* one pass of the while loop of optimization_loop, pressure_targets.py lines 156-230;
\* it runs on the gevent thread, between two calls of the controller
OptimizationLoopIteration(duration, detune) ==
    /\ greenlet = "alive"
    /\ sw_pc = "idle"
    /\ IF ~(opt_running /\ t_active)
       THEN /\ greenlet' = "dead"
            /\ UNCHANGED <<t_active, t_time, t_last_opt_time, t_last_center, t_direction,
                           opt_running>>
            /\ UNCHANGED <<loopVars, chanVars, late_solve, skips_in_a_row, solved_center>>
       ELSE LET center == Center(t_time)
                due == IsDue(t_time, t_last_opt_time, t_last_center)
                slow == WasSlow(last_opt_duration)
                reduced == due /\ slow /\ consecutive_skips < MaxConsecutiveSkips
                solve == due /\ (~slow \/ reduced)
                num_freqs == IF reduced THEN ReducedNumFreqs ELSE NormalNumFreqs
                solution == SolutionOf(num_freqs, detune)
            IN  /\ t_direction' = Direction(t_time)
                /\ consecutive_skips' = IF ~due THEN consecutive_skips
                                        ELSE IF reduced THEN consecutive_skips + 1
                                        ELSE IF ~slow THEN 0
                                        ELSE consecutive_skips
                /\ last_opt_duration' = IF ~solve THEN last_opt_duration
                                        ELSE IF WasVerySlow(duration) THEN ForgivenDuration
                                        ELSE duration
                /\ current_solution' = IF solve THEN solution ELSE current_solution
                /\ target_center' = IF solve THEN TargetAfterSolve ELSE target_center
                /\ state_frequency' = IF solve THEN AppliedFrequency(solution[1].frequencies)
                                      ELSE state_frequency
                /\ state_volume' = IF solve THEN AppliedVolume(solution[1].frequencies)
                                   ELSE state_volume
                /\ state_mute' = IF solve THEN AppliedMute(solution[1].frequencies)
                                 ELSE state_mute
                /\ t_last_center' = IF due THEN center ELSE t_last_center
                /\ t_last_opt_time' = IF due THEN t_time ELSE t_last_opt_time
                /\ skips_in_a_row' = IF ~due THEN skips_in_a_row
                                     ELSE IF solve THEN 0 ELSE skips_in_a_row + 1
                /\ solved_center' = IF solve THEN center ELSE solved_center
                /\ late_solve' = (late_solve \/ (solve /\ stopped))
                /\ UNCHANGED <<t_active, t_time, opt_running, greenlet>>
    /\ UNCHANGED <<synthVars, ctlVars, current_source, activeSetVars>>
    /\ UNCHANGED <<streamVars, pcbVars, swVars, stopped, stop_saw_stream>>
    /\ UNCHANGED extVars

\* audio blocks the pressure stream delivers while the source router is examined
MaxSwitchBlocks == 2
\* audio blocks of animation time while the background loop is examined
MaxAnimBlocks == 135

SwitchFreqs == {22000}

SourceNext ==
    \/ \E source \in Sources : SetAudioSourceBegin(source)
    \/ PressureStopStream
    \/ \E outcome \in StartOutcomes, configured \in BOOLEAN :
           SetAudioSourceStart(outcome, configured, 0)
    \/ PressureCallbackBegin(MaxSwitchBlocks)
    \/ PressureCallbackReadTime
    \/ PressureCallbackFinish
    \/ OptimizationLoopIteration(100, 0)
    \/ \E ch \in Channels, f \in SwitchFreqs : ChannelSetFrequency(ch, f)

SourceSpec == Init /\ [][SourceNext]_vars

LoopNext ==
    \/ SetAudioSourceBegin("pressure")
    \/ SetAudioSourceStart("ok", TRUE, 0)
    \/ PressureCallbackBegin(MaxAnimBlocks)
    \/ PressureCallbackReadTime
    \/ PressureCallbackFinish
    \/ \E duration \in SolveDurations : OptimizationLoopIteration(duration, 0)

LoopSpec == Init /\ [][LoopNext]_vars

(***************************************************************************)
(* The setters of PressureAlgorithmInput (src/audio/pressure_algorithm.py) *)
(* against its audio callback.  The callback holds self.lock from line 200 *)
(* to line 254, that is while pcb_pc is not "idle"; set_active_frequencies *)
(* holds it between its two stores.  The setters are called on the gevent  *)
(* thread, the callback runs on the audio thread.                          *)
(***************************************************************************)
\* the (frequencies, amplitudes) pairs set_active_frequencies is called with
ActiveSets == {<<(<<11000>>), (<<100>>)>>, <<(<<22000, 33000>>), (<<50, 25>>)>>}
\* the volumes set_volume is called with, in hundredths
PressureVolumeArgs == {50}

\* with self.lock, line 200: the callback is inside its locked section
CallbackHoldsLock == pcb_pc # "idle"

\* set_active_frequencies(frequencies, amplitudes), line 182: the call, up to the lock
SetActiveFrequenciesCall(freqs, amps) ==
    /\ set_pc = "idle"
    /\ sw_pc = "idle"
    /\ set_pc' = "waiting"
    /\ set_op' = "set_active_frequencies"
    /\ set_frequencies' = freqs
    /\ set_amplitudes' = amps
    /\ UNCHANGED set_volume_arg
    /\ UNCHANGED <<nonSynthVars, exceptSetter>>

\* set_volume(volume), line 176: the call, up to the lock
PressureSetVolumeCall(volume) ==
    /\ set_pc = "idle"
    /\ sw_pc = "idle"
    /\ set_pc' = "waiting"
    /\ set_op' = "set_volume"
    /\ set_volume_arg' = volume
    /\ UNCHANGED <<set_frequencies, set_amplitudes>>
    /\ UNCHANGED <<nonSynthVars, exceptSetter>>

\* set_volume, lines 178-180: the lock, the store and the release
PressureSetVolumeLocked ==
    /\ set_pc = "waiting"
    /\ set_op = "set_volume"
    /\ ~CallbackHoldsLock
    /\ pm_volume' = set_volume_arg * MASTER_VOLUME
    /\ set_pc' = "idle"
    /\ set_op' = "none"
    /\ UNCHANGED <<set_frequencies, set_amplitudes, set_volume_arg>>
    /\ UNCHANGED <<synth_stream_active, mic_active, mic_stream, pm_active, pm_stream>>
    /\ UNCHANGED <<exceptSetter, chanVars, ctlVars, current_source, activeSetVars>>
    /\ UNCHANGED <<pcbVars, animVars, loopVars, swVars, histVars>>

\* the first store made without taking the lock
SetActiveFrequenciesAcquire_NoLock ==
    /\ set_pc = "waiting"
    /\ set_op = "set_active_frequencies"
    /\ pm_frequencies' = set_frequencies
    /\ set_pc' = "frequencies_stored"
    /\ UNCHANGED <<pm_amplitudes, set_op, set_frequencies, set_amplitudes, set_volume_arg>>
    /\ UNCHANGED <<exceptSetter, chanVars, ctlVars, current_source, pressureVars>>

\* set_active_frequencies, lines 184-185: the lock and the store of the frequencies
SetActiveFrequenciesAcquire ==
    /\ set_pc = "waiting"
    /\ set_op = "set_active_frequencies"
    /\ ~CallbackHoldsLock
    /\ pm_frequencies' = set_frequencies
    /\ set_pc' = "frequencies_stored"
    /\ UNCHANGED <<pm_amplitudes, set_op, set_frequencies, set_amplitudes, set_volume_arg>>
    /\ UNCHANGED <<exceptSetter, chanVars, ctlVars, current_source, pressureVars>>

\* set_active_frequencies, lines 186-193: the store of the amplitudes and the release
SetActiveFrequenciesRelease ==
    /\ set_pc = "frequencies_stored"
    /\ pm_amplitudes' = set_amplitudes
    /\ set_pc' = "idle"
    /\ set_op' = "none"
    /\ UNCHANGED <<pm_frequencies, set_frequencies, set_amplitudes, set_volume_arg>>
    /\ UNCHANGED <<exceptSetter, chanVars, ctlVars, current_source, pressureVars>>

\* audio blocks the pressure stream delivers while the setters are examined
MaxLockBlocks == 2

LockNext ==
    \/ set_pc = "idle" /\ SetAudioSourceBegin("pressure")
    \/ set_pc = "idle" /\ SetAudioSourceStart("ok", TRUE, 0)
    \/ PressureCallbackBegin(MaxLockBlocks)
    \/ PressureCallbackReadTime
    \/ PressureCallbackFinish
    \/ \E set \in ActiveSets : SetActiveFrequenciesCall(set[1], set[2])
    \/ \E volume \in PressureVolumeArgs : PressureSetVolumeCall(volume)
    \/ PressureSetVolumeLocked
    \/ SetActiveFrequenciesAcquire
    \/ SetActiveFrequenciesRelease

LockSpec == Init /\ [][LockNext]_vars

(***************************************************************************)
(* The pressure matrix of PressureAlgorithmInput                           *)
(* (src/audio/pressure_algorithm.py): its regeneration from the shared     *)
(* tube parameters and its readers.  Regeneration and readers run on the   *)
(* gevent thread, so a reader runs only between two regenerations.         *)
(***************************************************************************)
\* the q_factor values a client sets; 0 is the invalid one
QFactors == {0, 5, 10}
\* the frequencies looked up, in 1/100 Hz: below, on and between grid points, above
LookupFreqs == {MatrixMinFreq - 100, MatrixMinFreq, MatrixMinFreq + 50,
                MatrixMinFreq + FreqResolution, MatrixMinFreq + 2 * FreqResolution - 1,
                MaxMatrixFreq, MaxMatrixFreq + 100}

\* get_pressure_from_matrix, line 102: frequency in self.freq_range
OnGrid(frequency) == \E i \in 1 .. Len(freq_range) : freq_range[i] = frequency
\* line 103: np.where(self.freq_range == frequency)[0][0], as a 1-based row
GridIndex(frequency) ==
    CHOOSE i \in 1 .. Len(freq_range) :
        /\ freq_range[i] = frequency
        /\ \A j \in 1 .. i - 1 : freq_range[j] # frequency
\* the lower row rounded up instead of down
FreqIdxLow_RoundedUp(frequency) ==
    ((frequency - MatrixMinFreq + FreqResolution - 1) \div FreqResolution) + 1
\* line 113: int((frequency - min_matrix_freq) / freq_resolution), as a 1-based row
FreqIdxLow(frequency) == ((frequency - MatrixMinFreq) \div FreqResolution) + 1
\* line 114: min(freq_idx_low + 1, len(freq_range) - 1), as a 1-based row
FreqIdxHigh(frequency) == Min(FreqIdxLow(frequency) + 1, Len(freq_range))
\* lines 102-120: the rows of the matrix a lookup of frequency reads
RowsUsed(frequency) ==
    IF OnGrid(frequency) THEN {GridIndex(frequency)}
    ELSE IF frequency <= MatrixMinFreq THEN {1}
    ELSE IF frequency >= MaxMatrixFreq THEN {Len(pressure_matrix)}
    ELSE {FreqIdxLow(frequency), FreqIdxHigh(frequency)}

\* the change of tube_params['q_factor'] by a client (web_server.py lines 165-172);
\* update_tube_param is defined in no source file: it is taken to store the value and to
\* call the registered listeners, of which the pressure model is none
UpdateTubeParam(q_factor) ==
    /\ gen_pc = "idle"
    /\ q_factor # tube_q
    /\ tube_q' = q_factor
    /\ UNCHANGED <<pm_q_factor, freq_range, pressure_matrix, gen_pc, gen_row, observed,
                   observed_q>>
    /\ UNCHANGED exceptMatrix

\* update_from_tube_params as start() calls it (line 129), lines 47-68, and
\* generate_pressure_matrix up to line 83: the parameters, the grid and the empty matrix
UpdateFromTubeParams ==
    /\ gen_pc = "idle"
    /\ pm_q_factor' = tube_q
    /\ freq_range' = FreqRange
    /\ pressure_matrix' = ZeroMatrix
    /\ gen_pc' = "filling"
    /\ gen_row' = 0
    /\ UNCHANGED <<tube_q, observed, observed_q>>
    /\ UNCHANGED exceptMatrix

\* generate_pressure_matrix, lines 86-91: one pass of the loop; the exception of
\* calculate_t_network_pressures leaves the function
GenerateRow ==
    /\ gen_pc = "filling"
    /\ IF TNetworkRaises(pm_q_factor)
       THEN /\ gen_pc' = "idle"
            /\ UNCHANGED <<pressure_matrix, gen_row>>
       ELSE /\ pressure_matrix' =
                   [pressure_matrix EXCEPT ![gen_row + 1] =
                        CalculateTNetworkPressures(freq_range[gen_row + 1], pm_q_factor)]
            /\ gen_row' = gen_row + 1
            /\ gen_pc' = IF gen_row + 1 = Len(freq_range) THEN "idle" ELSE "filling"
    /\ UNCHANGED <<tube_q, pm_q_factor, freq_range, observed, observed_q>>
    /\ UNCHANGED exceptMatrix

\* get_pressure_from_matrix(frequency, position_index) as combine_frequency_pressures
\* (line 434) calls it for a solve of find_optimal_frequencies (line 509)
LookupPressure(frequency) ==
    /\ gen_pc = "idle"
    /\ observed' = {<<freq_range[i], pressure_matrix[i]>> : i \in RowsUsed(frequency)}
    /\ observed_q' = tube_q
    /\ UNCHANGED <<tube_q, pm_q_factor, freq_range, pressure_matrix, gen_pc, gen_row>>
    /\ UNCHANGED exceptMatrix

MatrixNext ==
    \/ \E q_factor \in QFactors : UpdateTubeParam(q_factor)
    \/ UpdateFromTubeParams
    \/ GenerateRow
    \/ \E frequency \in LookupFreqs : LookupPressure(frequency)

MatrixSpec == Init /\ [][MatrixNext]_vars

(***************************************************************************)
(* get_pressure_from_matrix (src/audio/pressure_algorithm.py lines 99-124, *)
(* and the same code in src/audio/pressure_matrix.py lines 52-77) as a     *)
(* function of a matrix of numbers, over the grid freq_range.              *)
(***************************************************************************)
\* positions of the matrices looked up; the code's matrix has position_count = 10
LookupPositions == 1
\* the pressures stored in the matrices looked up
PressureValues == {0, 10}
Matrices == [1 .. FreqCount -> [1 .. LookupPositions -> PressureValues]]

\* lines 117-124: the interpolation between the rows freq_idx_low and freq_idx_high
Interpolate(matrix, frequency, position_index) ==
    LET freq_low == freq_range[FreqIdxLow(frequency)]
        freq_high == freq_range[FreqIdxHigh(frequency)]
        pressure_low == matrix[FreqIdxLow(frequency)][position_index]
        pressure_high == matrix[FreqIdxHigh(frequency)][position_index]
    IN  IF freq_high > freq_low
        THEN <<pressure_low * (freq_high - freq_low)
                   + (frequency - freq_low) * (pressure_high - pressure_low),
               freq_high - freq_low>>
        ELSE <<pressure_low, 1>>

\* get_pressure_from_matrix(frequency, position_index), position_index 1-based
GetPressureFromMatrix(matrix, frequency, position_index) ==
    IF OnGrid(frequency) THEN <<matrix[GridIndex(frequency)][position_index], 1>>
    ELSE IF frequency <= MatrixMinFreq THEN <<matrix[1][position_index], 1>>
    ELSE IF frequency >= MaxMatrixFreq THEN <<matrix[Len(matrix)][position_index], 1>>
    ELSE Interpolate(matrix, frequency, position_index)

\* one call of get_pressure_from_matrix on a generated matrix
GetPressure(matrix, frequency, position_index) ==
    /\ lookup_args' = <<matrix, frequency, position_index>>
    /\ lookup_rows' = RowsUsed(frequency)
    /\ lookup_result' = GetPressureFromMatrix(matrix, frequency, position_index)
    /\ UNCHANGED exceptLookup

LookupNext ==
    \E matrix \in Matrices, frequency \in LookupFreqs, position_index \in 1 .. LookupPositions :
        GetPressure(matrix, frequency, position_index)

LookupSpec == Init /\ [][LookupNext]_vars

(***************************************************************************)
(* ModalDecomposition with its caches (src/audio/modal_decomposition.py).  *)
(* Matrices are kept as the inputs that determine them; the dead branch of *)
(* lines 83-98 (cho_solve on a stored factor raises no LinAlgError) is     *)
(* left out; lambda_reg is the default of line 27 in every call.           *)
(***************************************************************************)
\* decompose_target calls examined
MaxDecompositions == 2
\* physics parameter changes examined
MaxParameterChanges == 1
\* position_count
PositionCount == 10
\* the values the physics attributes are changed to
PhysicsChanges ==
    {<<"tube_length", 0>>, <<"tube_length", 200>>, <<"speed_of_sound", 340>>,
     <<"damping_coefficient", 2>>, <<"reflection_count", 4>>, <<"q_factor", 10>>,
     <<"q_factor", 0>>, <<"hole_size", 2>>}
\* targets: None, an empty vector, and two profiles over the positions
Targets == {"None", "empty", "gaussian", "notch"}
\* num_modes: the value of pressure_targets.py line 304 and the default of line 27
ModeCounts == {8, 10}
\* what P^T P + lambda I turns out to be for the solvers
Numerics == {"positive_definite", "indefinite", "singular"}

\* update_from_tube_params, line 62
Positions == Linspace(0, pm_physics.tube_length, PositionCount)

\* the key that differs in every call
CacheKey_PerCall(num_modes) ==
    <<pm_physics.tube_length, pm_physics.speed_of_sound, pm_physics.damping_coefficient,
      pm_physics.reflection_count, pm_q_factor, Positions, num_modes, md_calls>>

\* _get_cache_key(num_modes), lines 14-25
CacheKey(num_modes) ==
    <<pm_physics.tube_length, pm_physics.speed_of_sound, pm_physics.damping_coefficient,
      pm_physics.reflection_count, pm_q_factor, Positions, num_modes>>

\* line 51: (2n+1) * c / (4L) for n in range(num_modes), in 1/100 Hz, L in cm
ModeFrequencies(num_modes) ==
    [n \in 1 .. num_modes |->
        ((2 * (n - 1) + 1) * pm_physics.speed_of_sound * 10000) \div (4 * pm_physics.tube_length)]

\* lines 55-67: the normalised T-network pressures of the mode frequencies, which
\* pressure_matrix.py lines 79-163 compute from these attributes
BuildResponseMatrix(num_modes) ==
    [physics |-> pm_physics, q_factor |-> pm_q_factor, num_modes |-> num_modes]

\* lines 51 and 55 on a cache miss: the divisions by tube_length and by q_factor
BuildRaises == pm_physics.tube_length = 0 \/ TNetworkRaises(pm_q_factor)

\* the solution of the system before clipping, in hundredths
RawSolution(num_modes) == [n \in 1 .. num_modes |-> 7 * n - 10]
\* line 120: np.clip(amplitudes, 0, 1.0)
Clip(amplitudes) == [n \in DOMAIN amplitudes |-> Max(0, Min(FullVolume, amplitudes[n]))]

\* the cache with one more entry
Stored(cache, key, value) ==
    [k \in DOMAIN cache \cup {key} |-> IF k = key THEN value ELSE cache[k]]

\* what a decompose_target call returns or does
Outcome(kind, freqs, amps, system, target, num_modes, reused) ==
    [kind |-> kind, frequencies |-> freqs, amplitudes |-> amps,
     system |-> system, target |-> target, num_modes |-> num_modes,
     physics |-> pm_physics, q_factor |-> pm_q_factor, reused |-> reused]

\* decompose_target(target_pressure, num_modes), lines 27-127
DecomposeTargetBody(target, num_modes, numerics) ==
    /\ md_calls < MaxDecompositions
    /\ md_calls' = md_calls + 1
    /\ LET key == CacheKey(num_modes)
           empty == target \in {"None", "empty"}
           hit == key \in DOMAIN response_matrix_cache
           raises == ~empty /\ ~hit /\ BuildRaises
           solving == ~empty /\ ~raises
           entry == IF hit THEN response_matrix_cache[key]
                    ELSE [matrix |-> BuildResponseMatrix(num_modes),
                          frequencies |-> ModeFrequencies(num_modes)]
           factor_hit == key \in DOMAIN factorization_cache
           factors == solving /\ ~factor_hit /\ numerics = "positive_definite"
           fails == solving /\ ~factor_hit /\ numerics = "singular"
           system == [factor_of |-> IF factor_hit THEN factorization_cache[key]
                                    ELSE entry.matrix,
                      rhs_of |-> entry.matrix, target |-> target]
       IN  /\ response_matrix_cache' =
                  IF solving /\ ~hit THEN Stored(response_matrix_cache, key, entry)
                  ELSE response_matrix_cache
           /\ factorization_cache' =
                  IF factors THEN Stored(factorization_cache, key, entry.matrix)
                  ELSE factorization_cache
           /\ md_builds' = IF solving /\ ~hit THEN md_builds + 1 ELSE md_builds
           /\ md_factorizations' = IF factors THEN md_factorizations + 1
                                   ELSE md_factorizations
           /\ md_result' =
                  IF raises THEN Outcome("raised", <<>>, <<>>, <<>>, target, num_modes, FALSE)
                  ELSE IF empty \/ fails
                  THEN Outcome("failure", <<>>, <<>>, <<>>, target, num_modes, FALSE)
                  ELSE Outcome("solution", entry.frequencies, Clip(RawSolution(num_modes)),
                               system, target, num_modes, hit /\ factor_hit)
           /\ md_run' = IF empty THEN md_run
                        ELSE IF solving /\ ~hit /\ factors THEN num_modes
                        ELSE IF solving /\ hit /\ md_run = num_modes THEN md_run
                        ELSE 0
    /\ UNCHANGED <<pm_physics, md_changes>>

DecomposeTarget(target, num_modes, numerics) ==
    /\ DecomposeTargetBody(target, num_modes, numerics)
    /\ UNCHANGED <<exceptModal, matVars>>

\* a changed tube parameter as update_from_tube_params copies it into the model's
\* attributes (pressure_algorithm.py lines 47-68), with the regeneration of the matrix
SetPhysicsParameter(name, value) ==
    /\ md_changes < MaxParameterChanges
    /\ gen_pc = "idle"
    /\ md_changes' = md_changes + 1
    /\ md_run' = 0
    /\ IF name = "q_factor"
       THEN /\ value # pm_q_factor
            /\ tube_q' = value
            /\ pm_q_factor' = value
            /\ UNCHANGED pm_physics
       ELSE /\ value # pm_physics[name]
            /\ pm_physics' = [pm_physics EXCEPT ![name] = value]
            /\ UNCHANGED <<tube_q, pm_q_factor>>
    /\ freq_range' = FreqRange
    /\ pressure_matrix' = IF TNetworkRaises(pm_q_factor') THEN ZeroMatrix
                          ELSE GeneratedMatrix(pm_q_factor')
    /\ gen_row' = IF TNetworkRaises(pm_q_factor') THEN 0 ELSE FreqCount
    /\ UNCHANGED <<gen_pc, observed, observed_q>>
    /\ UNCHANGED <<response_matrix_cache, factorization_cache, md_result, md_calls,
                   md_builds, md_factorizations>>
    /\ UNCHANGED exceptModal

ModalNext ==
    \/ \E target \in Targets, num_modes \in ModeCounts, numerics \in Numerics :
           DecomposeTarget(target, num_modes, numerics)
    \/ \E change \in PhysicsChanges : SetPhysicsParameter(change[1], change[2])

ModalSpec == Init /\ [][ModalNext]_vars

(***************************************************************************)
(* ModalDecomposition.apply_to_channels (src/modal_decomposition.py) and   *)
(* PressureTargetSystem.optimize_and_apply (src/audio/pressure_targets.py),*)
(* which imports that module at line 302 and makes a new ModalDecomposition*)
(* for each call.  Frequencies in 1/100 Hz, amplitudes and volumes in      *)
(* hundredths; the channels written are the model's NumChannels channels.  *)
(***************************************************************************)
\* apply_to_channels and optimize_and_apply calls examined
MaxApplyCalls == 2
\* line 66: np.abs(amplitudes) > 0.01
AmplitudeThreshold == 1
\* pressure_targets.py line 304: num_modes = max(8, num_freqs * 2)
MinModes == 8

\* the (frequencies, amplitudes) apply_to_channels is called with: None, no pairs, and
\* lists with amplitudes above 1, at and below 0.01, below zero and all clipped to zero;
\* the amplitudes above 0.01 of a list are distinct
ApplyInputs ==
    {NoArgs,
     [frequencies |-> <<>>, amplitudes |-> <<>>, none |-> FALSE],
     [frequencies |-> <<8575, 25725, 42875>>, amplitudes |-> <<30, 150, 0>>, none |-> FALSE],
     [frequencies |-> <<8575, 25725, 42875>>, amplitudes |-> <<1, 0, -50>>, none |-> FALSE],
     [frequencies |-> <<8575, 25725, 42875>>, amplitudes |-> <<0, 0, 0>>, none |-> FALSE],
     [frequencies |-> <<8575, 25725, 42875, 60025>>, amplitudes |-> <<20, 60, 100, 2>>,
      none |-> FALSE]}
\* the num_freqs optimize_and_apply is called with: its default and the call sites' value
NumFreqsArgs == {NormalNumFreqs, SetupNumFreqs}

\* state.channels as one value
ChannelState == [frequency |-> state_frequency, volume |-> state_volume, mute |-> state_mute]

\* line 66: the indices of the pairs kept
SignificantIndices(amps) ==
    SelectSeq([i \in 1 .. Len(amps) |-> i], LAMBDA i : Abs(amps[i]) > AmplitudeThreshold)

\* lines 71-73 with the sort ascending
SortedIndices_Ascending(amps) ==
    SortSeq(SignificantIndices(amps), LAMBDA i, j : amps[i] < amps[j])

\* lines 71-73: np.argsort(sig_amps)[::-1], highest amplitude first
SortedIndices(amps) ==
    SortSeq(SignificantIndices(amps), LAMBDA i, j : amps[i] > amps[j])

\* line 76: min(len(sorted_freqs), 8)
NumToApply(amps) == Min(Len(SortedIndices(amps)), NumChannels)

\* lines 79-96: the channels after apply_to_channels(freqs, amps) on the channels chans
ModalApplied(chans, freqs, amps) ==
    [frequency |-> [ch \in Channels |->
                       IF ch < NumToApply(amps) THEN freqs[SortedIndices(amps)[ch + 1]]
                       ELSE chans.frequency[ch]],
     volume |-> [ch \in Channels |->
                    IF ch < NumToApply(amps)
                    THEN Min(FullVolume, amps[SortedIndices(amps)[ch + 1]])
                    ELSE chans.volume[ch]],
     mute |-> [ch \in Channels |-> ~(ch < NumToApply(amps))]]

\* lines 91 and 96: the notify_channel_updated calls of the two loops
ModalNotified(amps) ==
    [ch \in Channels |-> (IF ch < NumToApply(amps) THEN 1 ELSE 0)
                         + (IF ch >= NumToApply(amps) THEN 1 ELSE 0)]

\* apply_to_channels(frequencies, amplitudes), lines 58-98
ApplyToChannels(args) ==
    /\ ap_calls + oa_calls < MaxApplyCalls
    /\ ap_calls' = ap_calls + 1
    /\ ap_args' = args
    /\ IF args.none
       THEN /\ ap_result' = "False"
            /\ notified' = NoLocals
            /\ UNCHANGED chanVars
       ELSE LET after == ModalApplied(ChannelState, args.frequencies, args.amplitudes)
            IN  /\ ap_result' = "True"
                /\ notified' = ModalNotified(args.amplitudes)
                /\ state_frequency' = after.frequency
                /\ state_volume' = after.volume
                /\ state_mute' = after.mute
    /\ UNCHANGED <<oa_args, oa_calls, oa_path, oa_result>>
    /\ UNCHANGED <<synthVars, ctlVars, current_source, activeSetVars, pressureVars>>
    /\ UNCHANGED exceptApply

\* apply_solution_to_synth_channels with every channel muted
SolutionApplied_AllMuted(chans, freqs) ==
    [frequency |-> chans.frequency, volume |-> chans.volume,
     mute |-> [ch \in Channels |-> TRUE]]

\* apply_solution_to_synth_channels, pressure_targets.py lines 253-269, on the channels chans
SolutionApplied(chans, freqs) ==
    [frequency |-> [ch \in Channels |->
                       IF ch < Len(freqs) THEN freqs[ch + 1] ELSE chans.frequency[ch]],
     volume |-> [ch \in Channels |->
                    IF ch < Len(freqs) THEN FullVolume ELSE chans.volume[ch]],
     mute |-> [ch \in Channels |-> ~(ch < Len(freqs))]]

\* optimize_and_apply(profile="gaussian", num_freqs, animated, use_modal=True),
\* pressure_targets.py lines 274-323; numerics is what linalg.solve makes of the system
\* (src/modal_decomposition.py lines 45-56), detune1 and detune2 are the draws of the
\* two direct calculations
OptimizeAndApply(num_freqs, animated, numerics, detune1, detune2) ==
    /\ ap_calls + oa_calls < MaxApplyCalls
    /\ oa_calls' = oa_calls + 1
    /\ oa_args' = [num_freqs |-> num_freqs, animated |-> animated]
    /\ LET target == IF animated THEN Center(0) ELSE StaticCenter
           first == ResonantFrequencies(num_freqs, detune1)
           prepared == IF animated THEN SolutionApplied(ChannelState, first)
                       ELSE ChannelState
           num_modes == Max(MinModes, num_freqs * 2)
           failed == numerics = "singular"
           mode_freqs == ModeFrequencies(num_modes)
           mode_amps == Clip(RawSolution(num_modes))
           direct == ResonantFrequencies(num_freqs, detune2)
           after == IF failed THEN SolutionApplied(prepared, direct)
                    ELSE ModalApplied(prepared, mode_freqs, mode_amps)
       IN  /\ target_center' = target
           /\ t_active' = animated
           /\ t_time' = IF animated THEN 0 ELSE t_time
           /\ t_last_opt_time' = IF animated THEN 0 ELSE t_last_opt_time
           /\ t_last_center' = IF animated THEN 0 ELSE t_last_center
           /\ t_direction' = IF animated THEN 1 ELSE t_direction
           /\ last_opt_duration' = IF animated THEN 0 ELSE last_opt_duration
           /\ current_solution' =
                  IF failed THEN <<[frequencies |-> direct, target |-> target]>>
                  ELSE <<[frequencies |-> mode_freqs, amplitudes |-> mode_amps,
                          target |-> target]>>
           /\ state_frequency' = after.frequency
           /\ state_volume' = after.volume
           /\ state_mute' = after.mute
           /\ notified' = [ch \in Channels |-> (IF animated THEN 1 ELSE 0) + 1]
           /\ oa_path' = IF failed THEN "fallback" ELSE "modal"
           /\ oa_result' = "True"
    /\ UNCHANGED <<ap_args, ap_result, ap_calls>>
    /\ UNCHANGED <<opt_running, greenlet, consecutive_skips>>
    /\ UNCHANGED <<synthVars, ctlVars, current_source, activeSetVars>>
    /\ UNCHANGED <<streamVars, pcbVars, swVars, histVars>>
    /\ UNCHANGED exceptApply

ApplyNext ==
    \/ \E args \in ApplyInputs : ApplyToChannels(args)
    \/ \E num_freqs \in NumFreqsArgs, animated \in BOOLEAN, numerics \in Numerics,
          detune1 \in Detunes, detune2 \in Detunes :
           OptimizeAndApply(num_freqs, animated, numerics, detune1, detune2)

ApplySpec == Init /\ [][ApplyNext]_vars

(***************************************************************************)
(* PressureTargetSystem.get_current_center_position                        *)
(* (src/audio/pressure_targets.py lines 81-93).  elapsed_time in samples,  *)
(* so that the half-cycle duration is CenterOne samples; the center in     *)
(* 1/CenterOne.                                                            *)
(***************************************************************************)
\* the elapsed times examined: multiples of half a second up to this many, and one
\* sample before and after each
MaxCenterSteps == 250
HalfSecond == RATE \div 2
ElapsedTimes ==
    {k * HalfSecond + offset : k \in 0 .. MaxCenterSteps, offset \in {-1, 0, 1}}
        \ {-1}

\* line 83 before the division: elapsed_time % (2 * self.duration)
CyclePositionAt(elapsed) == elapsed % (2 * CenterOne)

\* lines 86-91 with the second half not folded back
GetCurrentCenterPosition_NoFold(elapsed) ==
    [center |-> CyclePositionAt(elapsed),
     direction |-> IF CyclePositionAt(elapsed) > CenterOne THEN -1 ELSE 1]

\* get_current_center_position(elapsed_time): the center returned and the direction stored
GetCurrentCenterPosition(elapsed) ==
    IF CyclePositionAt(elapsed) > CenterOne
    THEN [center |-> 2 * CenterOne - CyclePositionAt(elapsed), direction |-> -1]
    ELSE [center |-> CyclePositionAt(elapsed), direction |-> 1]

\* a call of get_current_center_position(elapsed)
GetCenterCall(elapsed) ==
    /\ cp_elapsed' = elapsed
    /\ cp_center' = GetCurrentCenterPosition(elapsed).center
    /\ t_direction' = GetCurrentCenterPosition(elapsed).direction
    /\ UNCHANGED <<t_active, t_time, t_last_opt_time, t_last_center, opt_running, greenlet>>
    /\ UNCHANGED <<synthVars, chanVars, ctlVars, current_source, activeSetVars>>
    /\ UNCHANGED <<streamVars, pcbVars, loopVars, swVars, histVars>>
    /\ UNCHANGED <<setterVars, matVars, lookupVars, modalVars, applyVars>>
    /\ UNCHANGED otherCenter

CenterNext == \E elapsed \in ElapsedTimes : GetCenterCall(elapsed)

CenterSpec == Init /\ [][CenterNext]_vars

(***************************************************************************)
(* PressureAlgorithmInput.calculate_resonant_frequencies                   *)
(* (src/audio/pressure_algorithm.py lines 449-488) as a function of        *)
(* num_freqs, for the tube of the reference scenario.                      *)
(***************************************************************************)
\* the largest num_freqs examined
MaxNumFreqs == 8
\* line 479-482: (np.random.random() - 0.5) * 0.03, in 1/1000: from -1.5% to +1.5%
DetuneRange == (-15) .. 15

\* calculate_resonant_frequencies(num_freqs)
CalculateResonantFrequencies(num_freqs, detune) ==
    /\ rf_num_freqs' = num_freqs
    /\ rf_result' = ResonantFrequencies(num_freqs, detune)
    /\ UNCHANGED <<baseVars, otherResonant>>

ResonantNext ==
    \E num_freqs \in 1 .. MaxNumFreqs, detune \in DetuneRange :
        CalculateResonantFrequencies(num_freqs, detune)

ResonantSpec == Init /\ [][ResonantNext]_vars

(***************************************************************************)
(* The blocks the pressure and microphone callbacks deliver                *)
(* (src/audio/pressure_algorithm.py lines 195-260,                         *)
(* src/audio/mic_input.py lines 266-312), one callback as one step: the    *)
(* pressure callback holds the lock over all it does.  Sample values in    *)
(* 1/10000, pressures in hundredths.                                       *)
(***************************************************************************)
\* callbacks examined per source
MaxRenderBlocks == 2
\* audio_core.py line 34: soft_clip's threshold 0.8, in 1/10000
SoftClipThreshold == 8000
\* audio_core.py line 40 on the float32 blocks of the callbacks: np.tanh(x / 0.8) is
\* exactly 1.0 from x / 0.8 = 9.02 on, that is from x = 7.216, and the sample is then
\* the float32 nearest to 0.8, which is 0.800000011920929; in 1/10000
SaturationInput == 72160
\* pressure_algorithm.py line 233: the test tone's amplitude 0.3, in hundredths
ToneAmplitude == 30

\* the (frequencies, amplitudes) installed: none, a small set, and eight channels at
\* 20 Hz and full volume as update_from_synth_channels installs them
RenderSets ==
    {<<(<<>>), (<<>>)>>,
     <<(<<11000>>), (<<>>)>>,
     <<[i \in 1 .. 8 |-> 2000], [i \in 1 .. 8 |-> FullVolume]>>}
\* the volumes set_volume is called with, in hundredths
RenderVolumes == {0, 100}
\* position_component * time_component * damping averaged over the monitor positions
\* (lines 291-304), in hundredths: a number between -1 and 1 that depends on the
\* frequency and the time; 0.98 is reached at 20 Hz
Contributions == {-98, 0, 98}

\* soft_clip on a magnitude, audio_core.py line 40: tanh(x / threshold) * threshold is
\* zero at zero, otherwise below both x and the threshold, and the threshold itself
\* once tanh has returned 1.0
SoftClipMagnitude(x) ==
    IF x >= SaturationInput THEN SoftClipThreshold
    ELSE Min(x, SoftClipThreshold - 1)

RECURSIVE SumFirst(_, _)
SumFirst(seq, n) == IF n = 0 THEN 0 ELSE seq[n] + SumFirst(seq, n - 1)

\* calculate_pressure_at_time, lines 278-310, with every frequency contributing
\* the same factor: the sum of amplitude * contribution, then p + 0.1 p^3
PressureOf(freqs, amps, contribution) ==
    LET n == Min(Len(freqs), Len(amps))
        total == SumFirst(amps, n) * contribution
        p == Sign(total) * (Abs(total) \div 100)
    IN  p + Sign(p) * ((Abs(p) * Abs(p) * Abs(p)) \div 100000)

PressureAtTime(contribution) == PressureOf(pm_frequencies, pm_amplitudes, contribution)

\* lines 233-235: the largest sample of the test tone before clipping, 0.3 * volume
ToneInput(volume) == (ToneAmplitude * Abs(volume)) \div 100

\* line 244: the sample pressure * volume before clipping
SampleInput(pressure, volume) == (Abs(pressure) * Abs(volume)) \div 100

\* a callback that delivers silence when nothing is to be played
ToneBlock_Zeros == [kind |-> "zeros", peak |-> 0]

\* lines 226-235 and 256-260: the test tone
ToneBlock == [kind |-> "tone", peak |-> SoftClipMagnitude(ToneInput(pm_volume))]

\* lines 237-247 and 256-260: the samples pressure * volume
SampleBlock(contribution) ==
    [kind |-> "samples",
     peak |-> SoftClipMagnitude(SampleInput(PressureAtTime(contribution), pm_volume))]

\* PressureAlgorithmInput.callback, lines 195-260.
\*   contribution  the factor of calculate_pressure_at_time at the block's largest sample
\*   fault         an exception is raised inside the per-sample loop, at its first sample
PressureCallbackBlock(contribution, fault) ==
    /\ pm_stream = "running"
    /\ pcb_pc = "idle"
    /\ set_pc # "frequencies_stored"
    /\ pm_blocks < MaxRenderBlocks
    /\ pm_blocks' = pm_blocks + 1
    /\ LET empty == Len(pm_frequencies) = 0 \/ Len(pm_amplitudes) = 0
           raises == ~empty /\ fault
       IN  /\ IF t_active
              THEN /\ t_time' = t_time + 1
                   /\ t_direction' = Direction(t_time + 1)
              ELSE UNCHANGED <<t_time, t_direction>>
           /\ pm_time' = IF empty \/ raises THEN pm_time ELSE pm_time + 1
           /\ pm_outdata' = IF raises THEN [kind |-> "unwritten", peak |-> 0]
                            ELSE IF empty THEN ToneBlock
                            ELSE SampleBlock(contribution)
           /\ pm_fault' = raises
           /\ pm_raised' = raises
    /\ UNCHANGED <<pcb_pc, pcb_time>>
    /\ UNCHANGED <<t_active, t_last_opt_time, t_last_center, opt_running, greenlet>>
    /\ UNCHANGED <<synthVars, chanVars, ctlVars, current_source, activeSetVars>>
    /\ UNCHANGED <<streamVars, loopVars, swVars, histVars>>
    /\ UNCHANGED <<setterVars, matVars, lookupVars, modalVars, applyVars>>
    /\ UNCHANGED <<mic_blocks, mic_outdata, mic_fault, mic_raised, underflow_count>>
    /\ UNCHANGED otherRender

\* MicInput.callback, mic_input.py lines 266-312.
\*   underflow  status.input_underflow is set: line 271 then calls time.time(), and the
\*              module imports no time, so a NameError leaves the callback before its try
\*   indata     "empty" or "block"
\*   fault      an exception is raised inside the try block
MicCallbackBlock(underflow, indata, fault) ==
    /\ mic_stream = "running"
    /\ mic_blocks < MaxRenderBlocks
    /\ mic_blocks' = mic_blocks + 1
    /\ underflow_count' = IF underflow THEN underflow_count + 1 ELSE underflow_count
    /\ mic_fault' = (underflow \/ (indata = "block" /\ fault))
    /\ mic_outdata' = IF underflow THEN "unwritten"
                      ELSE IF indata = "empty" \/ fault THEN "zeros"
                      ELSE "samples"
    /\ mic_raised' = underflow
    /\ UNCHANGED <<pm_blocks, pm_outdata, pm_fault, pm_raised>>
    /\ UNCHANGED <<baseVars, otherRender>>

BlockNext ==
    \/ set_pc = "idle" /\ \E source \in Sources : SetAudioSourceBegin(source)
    \/ PressureStopStream
    \/ set_pc = "idle" /\ \E outcome \in StartOutcomes : SetAudioSourceStart(outcome, TRUE, 0)
    \/ \E set \in RenderSets : SetActiveFrequenciesCall(set[1], set[2])
    \/ SetActiveFrequenciesAcquire
    \/ SetActiveFrequenciesRelease
    \/ \E volume \in RenderVolumes : PressureSetVolumeCall(volume)
    \/ PressureSetVolumeLocked
    \/ \E contribution \in Contributions, fault \in BOOLEAN :
           PressureCallbackBlock(contribution, fault)

BlockSpec == Init /\ [][BlockNext]_vars

\* the two callbacks and the switching of sources that starts and stops their streams
ServeNext ==
    \/ \E source \in Sources : SetAudioSourceBegin(source)
    \/ PressureStopStream
    \/ \E outcome \in StartOutcomes : SetAudioSourceStart(outcome, TRUE, 0)
    \/ \E contribution \in Contributions, fault \in BOOLEAN :
           PressureCallbackBlock(contribution, fault)
    \/ \E underflow \in BOOLEAN, indata \in {"empty", "block"}, fault \in BOOLEAN :
           MicCallbackBlock(underflow, indata, fault)

ServeSpec == Init /\ [][ServeNext]_vars

(***************************************************************************)
(* What start() of the microphone and of the pressure model hands back to  *)
(* set_audio_source (src/audio/mic_input.py lines 118-146,                 *)
(* src/audio/pressure_algorithm.py lines 126-162,                          *)
(* src/audio/audio_controller.py lines 55-79).                             *)
(***************************************************************************)
\* how the device behaves in a start() call; "no_device" is MicInput.input_device None
DeviceOutcomes == StartOutcomes \cup {"no_device"}

\* set_audio_source's start of the requested source, with what start() returns: both
\* start() methods end in a bare return or fall off their end on every path (mic_input.py
\* lines 121, 125, 142, 146; pressure_algorithm.py lines 133, 159, 162), and
\* set_audio_source does not look at the value
SetAudioSourceStartReturn(outcome, configured, detune) ==
    /\ outcome = "no_device" => sw_source = "mic"
    /\ SetAudioSourceStartBody(outcome, configured, detune)
    /\ LET called == sw_source = "mic" \/ (sw_source = "pressure" /\ configured)
           opens == \/ sw_source = "mic" /\ mic_stream # "running"
                    \/ sw_source = "pressure" /\ pm_stream # "running"
       IN  /\ start_returned' = IF called THEN "None" ELSE start_returned
           /\ start_failed' = (called /\ opens /\ outcome # "ok")
           /\ start_raised' = FALSE
    /\ UNCHANGED <<setterVars, matVars, lookupVars, modalVars, applyVars>>
    /\ UNCHANGED otherStart

DeviceNext ==
    \/ \E source \in Sources : SetAudioSourceBegin(source)
    \/ PressureStopStream
    \/ \E outcome \in DeviceOutcomes, configured \in BOOLEAN :
           SetAudioSourceStartReturn(outcome, configured, 0)

DeviceSpec == Init /\ [][DeviceNext]_vars

(***************************************************************************)
(* Invalid tube parameters: update_from_tube_params and a later            *)
(* calculate_resonant_frequencies (src/audio/pressure_algorithm.py lines   *)
(* 44-68 and 449-488).  Lengths in cm, the fundamental in 1/100 Hz.        *)
(***************************************************************************)
\* the changes a client makes: those of the physics attributes, and tube lengths that
\* are negative and short
TubeChanges == PhysicsChanges \cup {<<"tube_length", -50>>, <<"tube_length", 50>>}

\* line 453: speed_of_sound / (2 * tube_length), for a length other than 0
FundamentalOf(physics) ==
    LET num == physics.speed_of_sound * 10000
        den == 2 * physics.tube_length
    IN  IF den > 0 THEN num \div den ELSE -(num \div (-den))

\* calculate_resonant_frequencies(num_freqs), lines 449-488, on the attributes as they
\* are: line 453 divides by the stored length; the list built from the fundamental
\* (lines 456-488) is not recorded
CalculateResonantFrequenciesOfTube(num_freqs) ==
    /\ tube_call' =
           IF pm_physics.tube_length = 0
           THEN [kind |-> "raised", fundamental |-> 0, num_freqs |-> num_freqs]
           ELSE [kind |-> "returned", fundamental |-> FundamentalOf(pm_physics),
                 num_freqs |-> num_freqs]
    /\ UNCHANGED <<baseVars, otherTube>>

TubeNext ==
    \/ \E change \in TubeChanges : SetPhysicsParameter(change[1], change[2])
    \/ \E num_freqs \in 1 .. MaxNumFreqs : CalculateResonantFrequenciesOfTube(num_freqs)

TubeSpec == Init /\ [][TubeNext]_vars

(***************************************************************************)
(* The samples ToneSynth.callback and the pressure callback hand to        *)
(* soft_clip and write to outdata (src/audio/synth.py lines 114-132,       *)
(* src/audio/pressure_algorithm.py lines 226-260,                          *)
(* src/audio/audio_core.py lines 34-40), as a function of what they are    *)
(* rendered from.  Magnitudes in 1/10000.                                  *)
(***************************************************************************)
\* synth.py line 9: num_channels = 8
SynthChannels == 8
\* a channel of the synth: muted or not, at the default volume 0.1 or at 1.0
ChannelSettings == [muted : BOOLEAN, volume : {AMPLITUDE, FullVolume}]
\* np.sin(phases) at the sample examined, in hundredths; the channels start with the
\* same frequency and phase (synth.py lines 15-17), so one value stands for all
Sines == {-100, 71, 100}
\* the volumes PressureAlgorithmInput.set_volume is called with, in hundredths
ClipVolumes == {0, 10, 20, 100}

\* the sum of volume * MASTER_VOLUME without the master volume
SynthInput_NoMaster(settings, sine) ==
    LET level == [ch \in 1 .. Len(settings) |->
                     IF settings[ch].muted THEN 0 ELSE settings[ch].volume * 100]
    IN  (SumFirst(level, Len(level)) * Abs(sine)) \div 100

\* synth.py lines 86-123: output is the sum over the unmuted channels of
\* volume * MASTER_VOLUME * sin(phase)
SynthInput(settings, sine) ==
    LET level == [ch \in 1 .. Len(settings) |->
                     IF settings[ch].muted THEN 0 ELSE settings[ch].volume * MASTER_VOLUME]
    IN  (SumFirst(level, Len(level)) * Abs(sine)) \div 100

\* ToneSynth.callback, lines 128-132, for one sample of the block; one sample is
\* examined in a behaviour
SynthSample(settings, sine) ==
    /\ clip_source = "none"
    /\ clip_source' = "synth"
    /\ clip_settings' = settings
    /\ clip_input' = SynthInput(settings, sine)
    /\ clip_sample' = SoftClipMagnitude(SynthInput(settings, sine))
    /\ UNCHANGED <<baseVars, otherClip>>

\* PressureAlgorithmInput.callback, lines 226-260, for one sample of the block, with the
\* active set that update_from_synth_channels installs for n unmuted channels at 20 Hz
\* and volume 1.0 (n = 0: the empty set and the test tone)
PressureSample(n, volume, contribution) ==
    LET freqs == [i \in 1 .. n |-> BandMin]
        amps == [i \in 1 .. n |-> FullVolume]
        input == IF n = 0 THEN ToneInput(volume * MASTER_VOLUME)
                 ELSE SampleInput(PressureOf(freqs, amps, contribution),
                                  volume * MASTER_VOLUME)
    IN  /\ clip_source = "none"
        /\ clip_source' = "pressure"
        /\ clip_settings' = <<n, volume>>
        /\ clip_input' = input
        /\ clip_sample' = SoftClipMagnitude(input)
        /\ UNCHANGED <<baseVars, otherClip>>

ClipNext ==
    \/ /\ clip_source = "none"
       /\ \E settings \in [1 .. SynthChannels -> ChannelSettings], sine \in Sines :
              SynthSample(settings, sine)
    \/ /\ clip_source = "none"
       /\ \E n \in 0 .. SynthChannels, volume \in ClipVolumes,
              contribution \in Contributions :
              PressureSample(n, volume, contribution)

ClipSpec == Init /\ [][ClipNext]_vars

(***************************************************************************)
(* What the pressure matrix stores of a T-network response and what        *)
(* combine_frequency_pressures sums (src/audio/pressure_algorithm.py lines *)
(* 317-392 and 407-447; src/audio/pressure_matrix.py lines 79-163 and      *)
(* 165-206 are the same code).  Responses in hundredths.                   *)
(***************************************************************************)
\* frequencies and positions of the responses examined
SuperposeFreqs == 2
SuperposePositions == 2
\* the sum of the damped cosines of lines 341-388 at one position: negative where the
\* incident and reflected waves are in antiphase with the source, as at x = L for
\* 171.5 Hz in the reference tube
SignedResponses == {-60, -20, 30, 80}
\* the amplitudes of a combine_frequency_pressures call, in hundredths
SuperposeAmplitudes == {0, 50, 100}

\* lines 390-391: pressures[i] = np.abs(pressures[i])
StoredRow(signed_row) == [x \in DOMAIN signed_row |-> Abs(signed_row[x])]

\* lines 437-440: the rows weighted by their amplitudes and summed over the frequencies
RECURSIVE WeightedSum(_, _, _, _)
WeightedSum(rows, amps, x, n) ==
    IF n = 0 THEN 0
    ELSE (amps[n] * rows[n][x]) \div 100 + WeightedSum(rows, amps, x, n - 1)

RECURSIVE MaxOf(_, _)
MaxOf(seq, n) == IF n = 1 THEN seq[1] ELSE Max(seq[n], MaxOf(seq, n - 1))

\* lines 442-445: division by the maximum when it is positive
Normalised(combined) ==
    LET max_pressure == MaxOf(combined, Len(combined))
    IN  IF max_pressure > 0
        THEN [x \in DOMAIN combined |->
                 Sign(combined[x]) * ((Abs(combined[x]) * 100) \div max_pressure)]
        ELSE combined

\* generate_pressure_matrix, lines 86-91: one calculate_t_network_pressures call per row
GenerateSignedRows(signed) ==
    /\ sp_signed' = signed
    /\ sp_matrix' = [i \in DOMAIN signed |-> StoredRow(signed[i])]
    /\ sp_amplitudes' = <<>>
    /\ sp_combined' = <<>>
    /\ sp_result' = <<>>
    /\ UNCHANGED <<baseVars, otherSuperpose>>

\* combine_frequency_pressures(frequencies, amplitudes) for the frequencies of the rows
CombineFrequencyPressures(amps) ==
    /\ sp_matrix # <<>>
    /\ sp_amplitudes' = amps
    /\ sp_combined' =
           [x \in 1 .. SuperposePositions |-> WeightedSum(sp_matrix, amps, x, Len(amps))]
    /\ sp_result' =
           Normalised([x \in 1 .. SuperposePositions |->
                          WeightedSum(sp_matrix, amps, x, Len(amps))])
    /\ UNCHANGED <<sp_signed, sp_matrix>>
    /\ UNCHANGED <<baseVars, otherSuperpose>>

SuperposeNext ==
    \/ /\ sp_matrix = <<>>
       /\ \E signed \in [1 .. SuperposeFreqs -> [1 .. SuperposePositions -> SignedResponses]] :
              GenerateSignedRows(signed)
    \/ \E amps \in [1 .. SuperposeFreqs -> SuperposeAmplitudes] :
           CombineFrequencyPressures(amps)

SuperposeSpec == Init /\ [][SuperposeNext]_vars

(***************************************************************************)
(* set_audio_source with any name and with starts that fail                *)
(* (src/audio/audio_controller.py lines 20-79).                            *)
(***************************************************************************)
SwitchNext ==
    \/ \E source \in SourceNames : SetAudioSourceBegin(source)
    \/ PressureStopStream
    \/ \E outcome \in DeviceOutcomes, configured \in BOOLEAN :
           SetAudioSourceStartReturn(outcome, configured, 0)

SwitchSpec == Init /\ [][SwitchNext]_vars

(***************************************************************************)
(* The animation's calls in any order: start_animation and stop_animation  *)
(* through the start and stop of the pressure source, and reset through    *)
(* PressureAlgorithmInput.reset_animation.                                 *)
(***************************************************************************)
\* PressureTargetSystem.reset, pressure_targets.py lines 138-144, called between two
\* calls of the controller: optimization_running and the greenlet are not touched
ResetAnimation ==
    /\ sw_pc = "idle"
    /\ t_active' = FALSE
    /\ t_time' = 0
    /\ t_last_opt_time' = 0
    /\ t_last_center' = 0
    /\ t_direction' = 1
    /\ UNCHANGED <<opt_running, greenlet>>
    /\ UNCHANGED <<synthVars, chanVars, ctlVars, current_source, activeSetVars>>
    /\ UNCHANGED <<streamVars, pcbVars, loopVars, swVars, histVars>>
    /\ UNCHANGED extVars

\* PressureTargetSystem.start_animation, pressure_targets.py lines 115-125, called on the
\* targets object between two calls of the controller: a loop is spawned only while
\* optimization_running is False
StartAnimation ==
    /\ sw_pc = "idle"
    /\ t_active' = TRUE
    /\ t_time' = 0
    /\ t_last_opt_time' = 0
    /\ t_last_center' = 0
    /\ opt_running' = TRUE
    /\ greenlet' = IF ~opt_running THEN "alive" ELSE greenlet
    /\ consecutive_skips' = IF ~opt_running THEN 0 ELSE consecutive_skips
    /\ skips_in_a_row' = IF ~opt_running THEN 0 ELSE skips_in_a_row
    /\ stopped' = FALSE
    /\ UNCHANGED <<t_direction, last_opt_duration, target_center, current_solution>>
    /\ UNCHANGED <<stop_saw_stream, late_solve, solved_center>>
    /\ UNCHANGED <<synthVars, chanVars, ctlVars, current_source, activeSetVars>>
    /\ UNCHANGED <<streamVars, pcbVars, swVars>>
    /\ UNCHANGED extVars

\* the optimization loops that are running: the greenlet start_animation spawned, until
\* stop_animation kills it or its while condition fails (line 156)
LoopsRunning == IF greenlet = "alive" THEN 1 ELSE 0

AnimNext ==
    \/ \E source \in Sources : SetAudioSourceBegin(source)
    \/ PressureStopStream
    \/ \E configured \in BOOLEAN : SetAudioSourceStart("ok", configured, 0)
    \/ StartAnimation
    \/ ResetAnimation
    \/ PressureCallbackBegin(MaxSwitchBlocks)
    \/ PressureCallbackReadTime
    \/ PressureCallbackFinish
    \/ OptimizationLoopIteration(100, 0)

AnimSpec == Init /\ [][AnimNext]_vars

(***************************************************************************)
(* update_volumes (src/audio/audio_controller.py) called again and again  *)
(* by the polling loop of main.py, between writes to the channel state.    *)
(***************************************************************************)
\* the volumes a MIDI or web writer stores, in 1/100
ChannelVolumes == {0, 50, FullVolume}

\* a MIDI or web writer stores a volume in the channel state
ChannelSetVolume(channel, volume) ==
    /\ channel \in Channels
    /\ state_volume' = [state_volume EXCEPT ![channel] = volume]
    /\ UNCHANGED <<state_frequency, state_mute>>
    /\ UNCHANGED <<synthVars, ctlVars, current_source, activeSetVars, pressureVars>>
    /\ UNCHANGED extVars

\* a MIDI or web writer stores a mute flag in the channel state
ChannelSetMute(channel, mute) ==
    /\ channel \in Channels
    /\ state_mute' = [state_mute EXCEPT ![channel] = mute]
    /\ UNCHANGED <<state_frequency, state_volume>>
    /\ UNCHANGED <<synthVars, ctlVars, current_source, activeSetVars, pressureVars>>
    /\ UNCHANGED extVars

\* what a call of update_volumes did and was given: lines 119-123 and 134-135
UpdateVolumesCalled ==
    /\ uv_forwarded' = {ch \in Channels : VolumeChanged(ch)}
    /\ uv_model_updated' =
           ((\E ch \in Channels : VolumeChanged(ch)) /\ current_source = "pressure")
    /\ uv_seen' = <<[volume |-> state_volume, mute |-> state_mute]>>
    /\ uv_repeat' = (uv_seen = <<[volume |-> state_volume, mute |-> state_mute]>>)

\* update_volumes(state.channels), lines 109-135: the argument is the state's own
\* dictionary, so the write-back of lines 126-129 is skipped
UpdateVolumes ==
    LET changes_made == \E ch \in Channels : VolumeChanged(ch)
    IN  /\ sw_pc = "idle"
        /\ (changes_made /\ current_source = "pressure") => pcb_pc = "idle"
        /\ ctl_volumes' = UpdateVolumesCache
        /\ volumes' = UpdateVolumesSynthVolumes
        /\ muted' = UpdateVolumesSynthMuted
        /\ IF changes_made /\ current_source = "pressure"
           THEN /\ pm_frequencies' = SynthChannelFrequencies
                /\ pm_amplitudes' = SynthChannelAmplitudes
           ELSE UNCHANGED activeSetVars
        /\ UpdateVolumesCalled
        /\ UNCHANGED <<tgtVars, cbVars, chanVars, ctl_frequencies, current_source>>
        /\ UNCHANGED pressureVars
        /\ UNCHANGED <<setterVars, matVars, lookupVars, modalVars, applyVars, otherPoll>>

\* what a call of update_pitches was given, lines 142-143
UpdatePitchesCalled == up_seen' = <<state_frequency>>

\* set_audio_source, lines 45-79, with the calls of lines 49 and 50 recorded
SetAudioSourceStartPolled(outcome, configured, detune) ==
    /\ SetAudioSourceStartBody(outcome, configured, detune)
    /\ IF sw_source = "synth" /\ sw_previous = "pressure"
       THEN UpdateVolumesCalled /\ UpdatePitchesCalled
       ELSE UNCHANGED <<pollVars, pitchCallVars>>
    /\ UNCHANGED <<setterVars, matVars, lookupVars, modalVars, applyVars>>
    /\ UNCHANGED <<centerVars, resonantVars, renderVars, startVars, tubeVars, clipVars,
                   superposeVars, rampVars, regVars, listenVars, pygameVars>>

VolumeNext ==
    \/ \E ch \in Channels, v \in ChannelVolumes : ChannelSetVolume(ch, v)
    \/ \E ch \in Channels, m \in BOOLEAN : ChannelSetMute(ch, m)
    \/ UpdateVolumes
    \/ \E source \in {"synth", "pressure"} : SetAudioSourceBegin(source)
    \/ PressureStopStream
    \/ SetAudioSourceStartPolled("ok", TRUE, 0)

VolumeSpec == Init /\ [][VolumeNext]_vars

(***************************************************************************)
(* audio_thread (src/main.py): the polling loop that carries the channel   *)
(* state to the synth.                                                     *)
(***************************************************************************)
\* one pass of audio_thread that updates, lines 38-44: update_volumes(channels), then
\* update_pitches(channels).  A pass that finds no change and no elapsed interval
\* (line 38) does nothing and is not a step.
AudioThreadPass ==
    LET changes_made == \E ch \in Channels : VolumeChanged(ch) \/ PitchChanged(ch)
    IN  /\ sw_pc = "idle"
        /\ (changes_made /\ current_source = "pressure") => pcb_pc = "idle"
        /\ ctl_volumes' = UpdateVolumesCache
        /\ volumes' = UpdateVolumesSynthVolumes
        /\ muted' = UpdateVolumesSynthMuted
        /\ ctl_frequencies' = [ch \in Channels |-> AtLeastOneHz(state_frequency[ch])]
        /\ frequencies' = UpdatePitchesTargets
        /\ IF changes_made /\ current_source = "pressure"
           THEN /\ pm_frequencies' = SynthChannelFrequencies
                /\ pm_amplitudes' = SynthChannelAmplitudes
           ELSE UNCHANGED activeSetVars
        /\ UpdateVolumesCalled
        /\ UpdatePitchesCalled
        /\ UNCHANGED <<ret, cbVars, chanVars, current_source, pressureVars>>
        /\ UNCHANGED <<setterVars, matVars, lookupVars, modalVars, applyVars>>
        /\ UNCHANGED <<centerVars, resonantVars, renderVars, startVars, tubeVars, clipVars,
                       superposeVars, rampVars, regVars, listenVars, pygameVars>>

\* apply_solution_to_synth_channels, pressure_targets.py lines 232-269, for the solution
\* of a re-solve: the solver's write to the channel state
ApplySolutionToSynthChannels(num_freqs, detune) ==
    /\ sw_pc = "idle"
    /\ state_frequency' = AppliedFrequency(ResonantFrequencies(num_freqs, detune))
    /\ state_volume' = AppliedVolume(ResonantFrequencies(num_freqs, detune))
    /\ state_mute' = AppliedMute(ResonantFrequencies(num_freqs, detune))
    /\ UNCHANGED <<synthVars, ctlVars, current_source, activeSetVars, pressureVars>>
    /\ UNCHANGED extVars

\* the frequencies a MIDI or web writer stores, in 1/100 Hz
PolledFreqs == {50, 22000, 2000001}

PollNext ==
    \/ \E ch \in Channels, f \in PolledFreqs : ChannelSetFrequency(ch, f)
    \/ \E ch \in Channels, v \in ChannelVolumes : ChannelSetVolume(ch, v)
    \/ \E ch \in Channels, m \in BOOLEAN : ChannelSetMute(ch, m)
    \/ AudioThreadPass
    \/ \E source \in {"synth", "pressure"} : SetAudioSourceBegin(source)
    \/ PressureStopStream
    \/ SetAudioSourceStartPolled("ok", TRUE, 0)
    \/ \E detune \in Detunes : ApplySolutionToSynthChannels(NormalNumFreqs, detune)

PollSpec == Init /\ [][PollNext]_vars

(***************************************************************************)
(* The linear-ramp ToneSynth of src/synth.py, one channel, unmuted.  A     *)
(* ramp lasts INTERPOLATION_DURATION * RATE samples and a block has 256;   *)
(* both are scaled down, a ramp keeping several blocks.                    *)
(***************************************************************************)
\* samples of one ramp
RampSamples == 8
\* samples of one block
RampFrames == 2
\* callbacks examined
MaxRampBlocks == 6
\* the frequencies offered to set_frequency, in 1/100 Hz
RampFreqs == {11000, 11800, 22000}

\* callback, lines 63-70: the interpolated frequency of the sample at ramp time t
InterpolatedFreq(t) ==
    ramp_interp_start_freqs
        + ((ramp_target_freqs - ramp_interp_start_freqs) * Min(t, RampSamples)) \div RampSamples

\* set_frequency(channel, freq), lines 34-43
RampSetFrequency(freq) ==
    /\ IF freq # ramp_target_freqs
       THEN /\ ramp_interp_start_freqs' = ramp_current_freqs
            /\ ramp_target_freqs' = freq
            /\ ramp_interp_times' = 0
            /\ ramp_interp_active' = TRUE
       ELSE UNCHANGED <<ramp_interp_start_freqs, ramp_target_freqs, ramp_interp_times,
                        ramp_interp_active>>
    /\ UNCHANGED <<ramp_current_freqs, ramp_first_freq, ramp_last_freq, ramp_blocks>>
    /\ UNCHANGED <<baseVars, otherRamp>>

\* callback, lines 50-108, for a channel that is not muted
RampCallback ==
    /\ ramp_blocks < MaxRampBlocks
    /\ ramp_blocks' = ramp_blocks + 1
    /\ IF ramp_interp_active
       THEN /\ ramp_first_freq' = InterpolatedFreq(ramp_interp_times)
            /\ ramp_last_freq' = InterpolatedFreq(ramp_interp_times + RampFrames - 1)
            /\ ramp_interp_times' = ramp_interp_times + RampFrames
            /\ IF ramp_interp_times + RampFrames >= RampSamples
               THEN /\ ramp_interp_active' = FALSE
                    /\ ramp_current_freqs' = ramp_target_freqs
               ELSE UNCHANGED <<ramp_interp_active, ramp_current_freqs>>
       ELSE /\ ramp_first_freq' = ramp_current_freqs
            /\ ramp_last_freq' = ramp_current_freqs
            /\ UNCHANGED <<ramp_interp_times, ramp_interp_active, ramp_current_freqs>>
    /\ UNCHANGED <<ramp_interp_start_freqs, ramp_target_freqs>>
    /\ UNCHANGED <<baseVars, otherRamp>>

RampNext ==
    \/ \E freq \in RampFreqs : RampSetFrequency(freq)
    \/ RampCallback

RampSpec == Init /\ [][RampNext]_vars

(***************************************************************************)
(* decompose_target with its lambda_reg argument                           *)
(* (src/audio/modal_decomposition.py): which regularization the cached     *)
(* factorization carries.                                                  *)
(***************************************************************************)
\* the lambda_reg values passed, in 1/1000000: the default 1e-6 and 1e-3
Lambdas == {1, 1000}

\* decompose_target(target_pressure, num_modes, lambda_reg), lines 27-127: lambda_reg
\* enters at lines 83 and 101 only, where P^T P + lambda_reg * I is formed and factored
DecomposeTargetRegularized(target, num_modes, lambda_reg, numerics) ==
    /\ DecomposeTargetBody(target, num_modes, numerics)
    /\ LET key == CacheKey(num_modes)
           factor_hit == key \in DOMAIN factorization_cache
       IN  /\ reg_lambda' = lambda_reg
           /\ reg_factor_lambda' =
                  IF key \in DOMAIN factorization_cache' /\ ~factor_hit
                  THEN Stored(reg_factor_lambda, key, lambda_reg)
                  ELSE reg_factor_lambda
           /\ reg_solved_lambda' =
                  IF md_result'.kind # "solution" THEN -1
                  ELSE IF factor_hit THEN reg_factor_lambda[key]
                  ELSE lambda_reg
    /\ UNCHANGED <<synthVars, nonSynthVars, setterVars, lookupVars, applyVars, matVars>>
    /\ UNCHANGED otherReg

RegNext ==
    \/ \E target \in Targets, num_modes \in ModeCounts, lambda_reg \in Lambdas,
          numerics \in Numerics :
           DecomposeTargetRegularized(target, num_modes, lambda_reg, numerics)
    \/ \E change \in PhysicsChanges : SetPhysicsParameter(change[1], change[2])

RegSpec == Init /\ [][RegNext]_vars

(***************************************************************************)
(* The channel-update listeners of src/state.py.                           *)
(***************************************************************************)
\* the functions registered: by web_server.py line 195 and by midi.py line 222
Listeners == {"broadcast_channel_update", "update_midi_controller"}
\* register_update_callback calls examined
MaxRegistrations == 3
\* notify_channel_updated calls examined
MaxNotifications == 3

\* register_update_callback(callback_function), lines 28-31
RegisterUpdateCallback(callback_function) ==
    /\ registrations < MaxRegistrations
    /\ registrations' = registrations + 1
    /\ update_callback' = callback_function
    /\ registered' = registered \cup {callback_function}
    /\ UNCHANGED <<invoked, notifications>>
    /\ UNCHANGED <<baseVars, otherListen>>

\* set_mute(channel, mute_state), lines 70-73, with the notify_channel_updated(channel)
\* of lines 82-84
SetMute(channel, mute_state) ==
    /\ notifications < MaxNotifications
    /\ notifications' = notifications + 1
    /\ state_mute' = [state_mute EXCEPT ![channel] = mute_state]
    /\ invoked' = IF update_callback # "None" THEN {update_callback} ELSE {}
    /\ UNCHANGED <<update_callback, registered, registrations>>
    /\ UNCHANGED <<state_frequency, state_volume>>
    /\ UNCHANGED <<synthVars, ctlVars, current_source, activeSetVars, pressureVars>>
    /\ UNCHANGED <<setterVars, matVars, lookupVars, modalVars, applyVars, otherListen>>

ListenNext ==
    \/ \E callback_function \in Listeners : RegisterUpdateCallback(callback_function)
    \/ \E ch \in Channels, m \in BOOLEAN : SetMute(ch, m)

ListenSpec == Init /\ [][ListenNext]_vars

(***************************************************************************)
(* The pygame engine (src/audio.py): update_pitches, the queue of          *)
(* frequency changes and the transition greenlets.  Everything runs on the *)
(* gevent thread; a transition_completed greenlet runs after its sleep.    *)
(***************************************************************************)
\* update_pitches calls examined
MaxRequests == 5
\* the channel frequencies update_pitches is called with, in 1/100 Hz
PygameFreqs == {50, 11000, 22000, 33000}

\* lines 109-113: a change appended to an empty queue, or put in place of the last one
QueuedChange_Appends(queue, freq) == Append(queue, freq)
QueuedChange(queue, freq) ==
    IF queue = <<>> THEN <<freq>> ELSE [queue EXCEPT ![Len(queue)] = freq]

\* lines 105-113: the queue of channel ch after the request freq
QueueAfterRequest(ch, freq) ==
    IF freq # pg_target_frequencies[ch]
    THEN QueuedChange(pg_frequency_change_queue[ch], freq)
    ELSE pg_frequency_change_queue[ch]

\* lines 119-121: update_pitches takes the next change and starts its transition
StartsTransition(ch, freq) ==
    ~pg_interpolation_active[ch] /\ QueueAfterRequest(ch, freq) # <<>>

\* update_pitches(channels), lines 100-121, with perform_frequency_transition, lines
\* 124-187, up to the spawn of its greenlet
PygameUpdatePitches(channel_frequencies) ==
    LET freq == [ch \in Channels |-> AtLeastOneHz(channel_frequencies[ch])]
    IN  /\ pg_requests < MaxRequests
        /\ pg_requests' = pg_requests + 1
        /\ pg_requested' = freq
        /\ pg_target_frequencies' = freq
        /\ pg_frequency_change_queue' =
               [ch \in Channels |->
                   IF StartsTransition(ch, freq[ch]) THEN Tail(QueueAfterRequest(ch, freq[ch]))
                   ELSE QueueAfterRequest(ch, freq[ch])]
        /\ pg_interpolation_active' =
               [ch \in Channels |->
                   pg_interpolation_active[ch] \/ StartsTransition(ch, freq[ch])]
        /\ pg_transitions' =
               [ch \in Channels |->
                   IF StartsTransition(ch, freq[ch])
                   THEN Append(pg_transitions[ch], Head(QueueAfterRequest(ch, freq[ch])))
                   ELSE pg_transitions[ch]]
        /\ UNCHANGED pg_frequencies
        /\ UNCHANGED <<baseVars, otherPygame>>

\* transition_completed of channel_index, lines 153-184, after its gevent.sleep: the
\* frequency becomes the transition's target and the next queued change is started
TransitionCompleted(channel_index) ==
    /\ channel_index \in Channels
    /\ pg_transitions[channel_index] # <<>>
    /\ LET target_freq == Head(pg_transitions[channel_index])
           queue == pg_frequency_change_queue[channel_index]
       IN  /\ pg_frequencies' = [pg_frequencies EXCEPT ![channel_index] = target_freq]
           /\ pg_interpolation_active' =
                  [pg_interpolation_active EXCEPT ![channel_index] = (queue # <<>>)]
           /\ pg_frequency_change_queue' =
                  [pg_frequency_change_queue EXCEPT
                      ![channel_index] = IF queue # <<>> THEN Tail(queue) ELSE queue]
           /\ pg_transitions' =
                  [pg_transitions EXCEPT
                      ![channel_index] =
                          IF queue # <<>>
                          THEN Append(Tail(pg_transitions[channel_index]), Head(queue))
                          ELSE Tail(pg_transitions[channel_index])]
    /\ UNCHANGED <<pg_target_frequencies, pg_requested, pg_requests>>
    /\ UNCHANGED <<baseVars, otherPygame>>

PygameNext ==
    \/ \E channel_frequencies \in [Channels -> PygameFreqs] :
           PygameUpdatePitches(channel_frequencies)
    \/ \E channel_index \in Channels : TransitionCompleted(channel_index)

PygameSpec == Init /\ [][PygameNext]_vars

\* gevent runs a spawned greenlet once its sleep is over
PygameLiveSpec ==
    PygameSpec /\ \A channel_index \in Channels : WF_vars(TransitionCompleted(channel_index))

(***************************************************************************)
(* C1.  set_frequency(channel, freq) stores freq clamped to [1, 20000] Hz  *)
(* as the channel's target and returns TRUE exactly when the clamped value *)
(* differs from the stored target; for a channel outside                   *)
(* 0..num_channels-1 it returns FALSE and changes nothing.  Hence every    *)
(* synth target lies in [1, 20000] Hz in every reachable state, whatever   *)
(* frequency the channel state holds.                                      *)
(***************************************************************************)
TargetsInRange ==
    \A ch \in Channels : frequencies[ch] >= FreqMin /\ frequencies[ch] <= FreqMax

InRange(f) == IF f < FreqMin THEN FreqMin ELSE IF f > FreqMax THEN FreqMax ELSE f

SetFrequencyContract ==
    \A ch \in ChannelArgs, f \in RawFreqs :
        SetFrequency(ch, f) =>
            IF ch \in Channels
            THEN /\ frequencies'[ch] = InRange(f)
                 /\ ret' = (frequencies[ch] # InRange(f))
                 /\ \A other \in Channels \ {ch} : frequencies'[other] = frequencies[other]
            ELSE ret' = FALSE /\ frequencies' = frequencies

C1_ClampedTargets == []TargetsInRange /\ [][SetFrequencyContract]_vars

\* update_pitches has forwarded an out-of-range channel frequency and the synth clamped it
C1_Witness ==
    \E ch \in Channels :
        /\ state_frequency[ch] > FreqMax
        /\ ctl_frequencies[ch] = state_frequency[ch]
        /\ frequencies[ch] = FreqMax

(***************************************************************************)
(* C2.  Phase continuity across a block boundary: the first sample of a    *)
(* block is one per-sample increment after the last sample delivered for   *)
(* that channel (modulo 2*pi); the increment may be that of the previous   *)
(* block's frequency or of the new block's frequency.                      *)
(***************************************************************************)
C2_PhaseContinuity ==
    cb_pc = "rendered" =>
        \A ch \in Channels :
            (~local_muted[ch] /\ last_sample[ch] # -1) =>
                \/ phases[ch] = (last_sample[ch] + PhaseInc(current_frequencies[ch])) % TwoPi
                \/ phases[ch] =
                       (last_sample[ch] + PhaseInc(local_current_frequencies[ch])) % TwoPi

(***************************************************************************)
(* C3.  set_frequency and set_volume leave every phase accumulator and     *)
(* every current frequency alone; only the write-back of the audio         *)
(* callback changes them, and after it the stored phase of every rendered  *)
(* channel lies in [0, 2*pi).                                              *)
(***************************************************************************)
IsSetterStep ==
    \/ \E ch \in ChannelArgs, f \in NearFreqs : SetFrequency(ch, f)
    \/ \E ch \in ChannelArgs, v \in VolumeArgs, m \in BOOLEAN : SetVolume(ch, v, m)

C3_Step ==
    /\ IsSetterStep =>
           phases' = phases /\ current_frequencies' = current_frequencies
    /\ (phases' # phases \/ current_frequencies' # current_frequencies) =>
           cb_pc = "rendered" /\ cb_pc' = "idle"
    /\ (cb_pc = "rendered" /\ cb_pc' = "idle") =>
           \A ch \in Channels :
               ~local_muted[ch] => (phases'[ch] >= 0 /\ phases'[ch] < TwoPi)

C3_PhaseOnlyByCallback == [][C3_Step]_vars

\* a retargeted channel whose phase the callback has advanced
C3_Witness ==
    \E ch \in Channels :
        frequencies[ch] # InitFreq /\ phases[ch] > 0 /\ cb_pc = "idle"

(***************************************************************************)
(* C4.  In each callback the current frequency of a channel that is        *)
(* unmuted moves toward the target the callback read by at most            *)
(* max(5% of the gap, 0.01 Hz); it never moves away from that target and   *)
(* never passes it.                                                        *)
(***************************************************************************)
C4_Step ==
    (cb_pc = "rendered" /\ cb_pc' = "idle") =>
        \A ch \in Channels :
            ~local_muted[ch] =>
                LET gap == local_target_frequencies[ch] - current_frequencies[ch]
                    moved == current_frequencies'[ch] - current_frequencies[ch]
                IN  /\ Abs(moved) * 100 <= Max(FreqChangePct * Abs(gap), 100 * GlideFloor)
                    /\ moved * gap >= 0
                    /\ Abs(moved) <= Abs(gap)

C4_BoundedGlide == [][C4_Step]_vars

\* a channel in the middle of a glide
C4_Witness ==
    \E ch \in Channels :
        /\ ~muted[ch]
        /\ current_frequencies[ch] # InitFreq
        /\ current_frequencies[ch] # frequencies[ch]

(***************************************************************************)
(* C5.  Glide convergence.  For an unmuted channel whose target was not    *)
(* changed during the callback, every callback strictly decreases the      *)
(* distance |target - current| (a natural number of 0.01 Hz units) while   *)
(* it is positive and keeps it 0 once it is 0: the current frequency       *)
(* reaches the target after finitely many callbacks and then stays there.  *)
(***************************************************************************)
C5_Step ==
    (cb_pc = "rendered" /\ cb_pc' = "idle") =>
        \A ch \in Channels :
            (~local_muted[ch] /\ frequencies[ch] = local_target_frequencies[ch]) =>
                LET before == Abs(frequencies[ch] - current_frequencies[ch])
                    after == Abs(frequencies'[ch] - current_frequencies'[ch])
                IN  IF before = 0 THEN after = 0 ELSE after < before

C5_GlideConverges == [][C5_Step]_vars

\* a glide that has arrived at a target other than the initial frequency
C5_Witness ==
    \E ch \in Channels :
        /\ frequencies[ch] # InitFreq
        /\ current_frequencies[ch] = frequencies[ch]
        /\ cb_pc = "idle"

(***************************************************************************)
(* C6.  A callback that hits an internal error returns normally: the block *)
(* is all zeros, error_count grows by exactly one, and phases, current     *)
(* frequencies, targets, volumes and mutes are what they were; the synth   *)
(* is then ready for the next callback.                                    *)
(***************************************************************************)
C6_Step ==
    error_count' # error_count =>
        /\ error_count' = error_count + 1
        /\ outdata' = {}
        /\ cb_pc' = "idle"
        /\ UNCHANGED <<phases, current_frequencies, frequencies, volumes, muted>>

C6_ErrorIsContained == [][C6_Step]_vars

\* a block rendered from an advanced state after an earlier callback failed
C6_Witness ==
    /\ error_count > 0
    /\ outdata # {}
    /\ cb_pc = "idle"
    /\ \E ch \in Channels : phases[ch] > 0

(***************************************************************************)
(* C7.  At every point during and after any sequence of set_audio_source   *)
(* calls at most one of the synth, microphone and pressure-model streams   *)
(* is active: an active stream belongs to the current source, and between  *)
(* the stop of the previous source and the start of the requested one no   *)
(* stream is active.                                                       *)
(***************************************************************************)
ActiveStreams ==
    {s \in Sources : \/ s = "synth" /\ synth_stream_active
                     \/ s = "mic" /\ mic_stream = "running"
                     \/ s = "pressure" /\ pm_stream = "running"}

C7_OneActiveStream ==
    /\ Cardinality(ActiveStreams) <= 1
    /\ ActiveStreams \subseteq {current_source}
    /\ sw_pc = "start" => ActiveStreams = {}

\* between the stop of a running pressure stream and the start of the microphone
C7_Witness ==
    /\ sw_pc = "start"
    /\ sw_previous = "pressure"
    /\ sw_source = "mic"
    /\ stop_saw_stream

(***************************************************************************)
(* C8.  After PressureAlgorithmInput.stop() has returned and until the     *)
(* next start: optimization_running is False, the greenlet handle is       *)
(* cleared, targets.active is False, the animation time is 0, the loop has *)
(* not re-solved or written channels, and if the stream was active it is   *)
(* closed (stream None, active False).                                     *)
(***************************************************************************)
C8_StopHaltsEverything ==
    stopped =>
        /\ ~opt_running
        /\ greenlet = "none"
        /\ ~t_active
        /\ t_time = 0
        /\ ~late_solve
        /\ stop_saw_stream => (pm_stream = "none" /\ ~pm_active)

(***************************************************************************)
(* C9.  While the animation runs the background loop skips at most         *)
(* max_consecutive_skips (2) due re-solves in a row.                       *)
(***************************************************************************)
C9_SkipBound == skips_in_a_row <= MaxConsecutiveSkips

(***************************************************************************)
(* C10.  Every re-solve of the background loop solves for a target profile *)
(* centered at the center position the loop computed for that re-solve.    *)
(***************************************************************************)
C10_TargetFollowsCenter ==
    (solved_center # -1 /\ current_solution # <<>>) =>
        current_solution[1].target = solved_center

(***************************************************************************)
(* C11.  The pressure-model audio callback holds the subsystem lock only   *)
(* to snapshot shared state, not while it computes the block's samples: a  *)
(* set_active_frequencies or set_volume call made while a block is being   *)
(* rendered never waits for that block's computation, so no setter is ever *)
(* waiting for the lock while the callback holds it with its block still   *)
(* to compute.                                                             *)
(***************************************************************************)
C11_SetterNeverWaitsForBlock == ~(set_pc = "waiting" /\ CallbackHoldsLock)

(***************************************************************************)
(* C13.  The active set is replaced wholesale: whenever the callback is in *)
(* the section in which it reads frequencies and amplitudes for its        *)
(* samples, the two lists are a pair that one call installed together,     *)
(* for every interleaving of set_active_frequencies with callbacks.        *)
(***************************************************************************)
InstalledTogether ==
    {<<(<<>>), (<<>>)>>, <<ConfiguredFrequencies(0), ConfiguredAmplitudes(0)>>} \cup ActiveSets

C13_ActiveSetIsWhole == CallbackHoldsLock => <<pm_frequencies, pm_amplitudes>> \in InstalledTogether

\* the callback renders from a set installed by a call while the next call waits
C13_Witness ==
    /\ CallbackHoldsLock
    /\ <<pm_frequencies, pm_amplitudes>> \in ActiveSets
    /\ set_pc = "waiting"
    /\ set_op = "set_active_frequencies"
    /\ set_frequencies # pm_frequencies
    /\ set_amplitudes # pm_amplitudes

(***************************************************************************)
(* C12.  Regenerating the pressure matrix publishes the finished matrix in *)
(* a single step: every row a reader (lookup, combine or solve) obtains    *)
(* from pressure_matrix is a row that a generation has filled, and it is   *)
(* the row of the published grid frequency; no reader obtains a row of a   *)
(* matrix that is only partly filled.                                      *)
(***************************************************************************)
C12_ReadersSeeFinishedMatrix ==
    \A pair \in observed :
        /\ pair[2] # ZeroRow
        /\ pair[2].frequency = pair[1]

(***************************************************************************)
(* C14.  After any change of a physics tube parameter in the shared state, *)
(* every later lookup is computed from a matrix generated with the new     *)
(* parameters: the rows a lookup reads were generated with the q_factor    *)
(* the shared tube parameters hold at that lookup.                         *)
(***************************************************************************)
C14_NoStaleMatrix ==
    \A pair \in observed :
        /\ pair[2] # ZeroRow
        /\ pair[2].q_factor = observed_q

(***************************************************************************)
(* C20.  Matrix lookup: for every position index, get_pressure_from_matrix *)
(* returns the stored value when f is a grid frequency, the linear         *)
(* interpolation of the two bracketing grid rows when f lies strictly      *)
(* between grid points, the first row's value for f <= min_freq and the    *)
(* last row's value for f >= max_freq; the rows read are rows of the       *)
(* matrix.                                                                 *)
(***************************************************************************)
\* the grid row just below and just above an off-grid frequency inside the grid
RowBelow(f) ==
    CHOOSE i \in 1 .. FreqCount :
        FreqRange[i] < f /\ \A j \in 1 .. FreqCount : FreqRange[j] < f => j <= i
RowAbove(f) ==
    CHOOSE i \in 1 .. FreqCount :
        FreqRange[i] > f /\ \A j \in 1 .. FreqCount : FreqRange[j] > f => j >= i

\* result = m[lo] + (f - F[lo]) / (F[hi] - F[lo]) * (m[hi] - m[lo]), cross-multiplied
IsInterpolation(result, matrix, f, p) ==
    LET lo == RowBelow(f)
        hi == RowAbove(f)
        span == FreqRange[hi] - FreqRange[lo]
    IN  result[1] * span =
            result[2] * (matrix[lo][p] * span + (f - FreqRange[lo]) * (matrix[hi][p] - matrix[lo][p]))

LookupContract(matrix, f, p, rows, result) ==
    /\ rows \subseteq 1 .. FreqCount
    /\ result[2] > 0
    /\ \A i \in 1 .. FreqCount : FreqRange[i] = f => result[1] = result[2] * matrix[i][p]
    /\ f <= MatrixMinFreq => result[1] = result[2] * matrix[1][p]
    /\ f >= MaxMatrixFreq => result[1] = result[2] * matrix[FreqCount][p]
    /\ (/\ f > MatrixMinFreq
        /\ f < MaxMatrixFreq
        /\ \A i \in 1 .. FreqCount : FreqRange[i] # f) => IsInterpolation(result, matrix, f, p)

C20_LookupIsCorrect ==
    lookup_args # <<>> =>
        LookupContract(lookup_args[1], lookup_args[2], lookup_args[3], lookup_rows,
                       lookup_result)

\* an off-grid lookup between two rows that hold different pressures
C20_Witness ==
    /\ lookup_args # <<>>
    /\ lookup_args[2] > MatrixMinFreq
    /\ lookup_args[2] < MaxMatrixFreq
    /\ \A i \in 1 .. FreqCount : FreqRange[i] # lookup_args[2]
    /\ lookup_args[1][RowBelow(lookup_args[2])][lookup_args[3]]
           # lookup_args[1][RowAbove(lookup_args[2])][lookup_args[3]]
    /\ lookup_result[2] > 1

(***************************************************************************)
(* C15.  Cache invalidation: after a change to any physics parameter that  *)
(* affects the pressure response (tube length, speed of sound, damping     *)
(* coefficient, reflection count, Q factor, hole size) or to the mode      *)
(* count, the next decompose_target rebuilds the response matrix and its   *)
(* factorization: the system a call solves is never made of a response     *)
(* matrix or a factorization built under other parameters than the call's. *)
(***************************************************************************)
BuiltUnder(outcome) ==
    [physics |-> outcome.physics, q_factor |-> outcome.q_factor,
     num_modes |-> outcome.num_modes]

C15_NoStaleCacheEntry ==
    md_result.kind = "solution" =>
        /\ md_result.system.rhs_of = BuiltUnder(md_result)
        /\ md_result.system.factor_of = BuiltUnder(md_result)

(***************************************************************************)
(* C16.  Cache reuse: in consecutive decompose_target calls with unchanged *)
(* physics parameters, positions and mode count, the response matrix and   *)
(* its factorization are built once, by the first of them; every later     *)
(* call builds neither, and returns what a fresh computation under the     *)
(* present parameters returns for its target.                              *)
(***************************************************************************)
FreshDecomposition(target, num_modes) ==
    [frequencies |-> ModeFrequencies(num_modes),
     amplitudes |-> Clip(RawSolution(num_modes)),
     system |-> [factor_of |-> BuildResponseMatrix(num_modes),
                 rhs_of |-> BuildResponseMatrix(num_modes), target |-> target]]

C16_Step ==
    (/\ md_calls' = md_calls + 1
     /\ md_run # 0
     /\ md_result'.num_modes = md_run
     /\ md_result'.target \notin {"None", "empty"}) =>
        /\ md_builds' = md_builds
        /\ md_factorizations' = md_factorizations
        /\ md_result'.kind = "solution"
        /\ md_result'.frequencies = FreshDecomposition(md_result'.target, md_run).frequencies
        /\ md_result'.amplitudes = FreshDecomposition(md_result'.target, md_run).amplitudes
        /\ md_result'.system = FreshDecomposition(md_result'.target, md_run).system

C17_DecomposeContract ==
    /\ md_result.kind # "raised"
    /\ md_result.target \in {"None", "empty"} => md_result.kind \in {"none", "failure"}
    /\ md_result.kind = "solution" =>
           /\ Len(md_result.frequencies) = md_result.num_modes
           /\ Len(md_result.amplitudes) = md_result.num_modes
           /\ \A n \in 1 .. md_result.num_modes :
                  /\ md_result.frequencies[n] =
                         ((2 * (n - 1) + 1) * md_result.physics.speed_of_sound * 10000)
                             \div (4 * md_result.physics.tube_length)
                  /\ md_result.amplitudes[n] >= 0
                  /\ md_result.amplitudes[n] <= FullVolume

(***************************************************************************)
(* C18.  Solver-failure fallback: an optimize_and_apply call whose modal   *)
(* decomposition returns (None, None) returns True, having stored the      *)
(* frequencies of the direct calculation as the solution and written them  *)
(* to the channels, which are unmuted; at least one channel is unmuted.    *)
(***************************************************************************)
C18_Step ==
    (oa_calls' = oa_calls + 1 /\ oa_path' = "fallback") =>
        /\ oa_result' = "True"
        /\ current_solution' # <<>>
        /\ \E detune \in Detunes :
               current_solution'[1].frequencies =
                   ResonantFrequencies(oa_args'.num_freqs, detune)
        /\ Len(current_solution'[1].frequencies) >= 1
        /\ \A ch \in Channels :
               ch < Len(current_solution'[1].frequencies) =>
                   /\ state_frequency'[ch] = current_solution'[1].frequencies[ch + 1]
                   /\ ~state_mute'[ch]
        /\ \E ch \in Channels : ~state_mute'[ch]

AllPairs(amps) == 1 .. Len(amps)
SignificantPairs(amps) == {i \in 1 .. Len(amps) : Abs(amps[i]) > AmplitudeThreshold}
HigherPairs(amps, kept, i) == {j \in kept : amps[j] > amps[i]}

ApplyContract(freqs, amps, kept) ==
    /\ ap_result' = "True"
    /\ \A ch \in Channels :
           /\ notified'[ch] = 1
           /\ ch < Min(Cardinality(kept), NumChannels) =>
                  \E i \in kept :
                      /\ Cardinality(HigherPairs(amps, kept, i)) = ch
                      /\ state_frequency'[ch] = freqs[i]
                      /\ state_volume'[ch] = Min(FullVolume, amps[i])
                      /\ ~state_mute'[ch]
           /\ ch >= Min(Cardinality(kept), NumChannels) =>
                  /\ state_mute'[ch]
                  /\ state_frequency'[ch] = state_frequency[ch]
                  /\ state_volume'[ch] = state_volume[ch]

NoneContract ==
    /\ ap_result' = "False"
    /\ notified' = NoLocals
    /\ UNCHANGED chanVars

\* C19 as stated: the pairs are chosen from all pairs passed
C19_StatedStep ==
    (ap_calls' = ap_calls + 1) =>
        IF ap_args'.none THEN NoneContract
        ELSE ApplyContract(ap_args'.frequencies, ap_args'.amplitudes,
                           AllPairs(ap_args'.amplitudes))

C19_Step ==
    (ap_calls' = ap_calls + 1) =>
        IF ap_args'.none THEN NoneContract
        ELSE ApplyContract(ap_args'.frequencies, ap_args'.amplitudes,
                           SignificantPairs(ap_args'.amplitudes))

PhaseOf(elapsed) == elapsed - (elapsed \div (2 * CenterOne)) * (2 * CenterOne)

C21_CenterIsTriangle ==
    cp_elapsed # -1 =>
        /\ cp_elapsed = 0 => cp_center = 0
        /\ cp_elapsed = CenterOne => cp_center = CenterOne
        /\ cp_elapsed = 2 * CenterOne => cp_center = 0
        /\ PhaseOf(cp_elapsed) <= CenterOne => cp_center = PhaseOf(cp_elapsed)
        /\ PhaseOf(cp_elapsed) >= CenterOne =>
               cp_center = 2 * CenterOne - PhaseOf(cp_elapsed)
        /\ cp_center = GetCurrentCenterPosition(cp_elapsed + 2 * CenterOne).center
        /\ cp_center >= 0
        /\ cp_center <= CenterOne
        /\ t_direction = (IF PhaseOf(cp_elapsed) <= CenterOne THEN 1 ELSE -1)

\* a call one sample after t = D: the center has begun to fall, the direction is down
C21_Witness ==
    /\ cp_elapsed = CenterOne + 1
    /\ cp_center = CenterOne - 1
    /\ t_direction = -1

(***************************************************************************)
(* C22.  End-to-end: for the tube of 1.0 m and 343 m/s,                    *)
(* calculate_resonant_frequencies(num_freqs=4) returns four ascending      *)
(* frequencies, the n-th within 3% of n times the fundamental c/(2L):      *)
(* 171.5, 343, 514.5 and 686 Hz.                                           *)
(***************************************************************************)
C22_ReferenceScenario ==
    rf_num_freqs = NormalNumFreqs =>
        /\ Len(rf_result) = NormalNumFreqs
        /\ \A i \in 1 .. (Len(rf_result) - 1) : rf_result[i] < rf_result[i + 1]
        /\ \A i \in 1 .. Len(rf_result) :
               Abs(rf_result[i] - i * Fundamental) * 100 <= 3 * i * Fundamental

(***************************************************************************)
(* C23.  A pressure callback that runs with no active frequencies or no    *)
(* amplitudes and a non-zero volume leaves the diagnostic tone in the      *)
(* block, with a non-zero sample.                                          *)
(***************************************************************************)
C23_Step ==
    (/\ pm_blocks' = pm_blocks + 1
     /\ Len(pm_frequencies) = 0 \/ Len(pm_amplitudes) = 0
     /\ pm_volume # 0) =>
        /\ pm_outdata'.kind = "tone"
        /\ pm_outdata'.peak > 0

C24_Step ==
    /\ (pm_blocks' = pm_blocks + 1 /\ ~pm_fault') => pm_time' = pm_time + 1
    /\ (pm_blocks' = pm_blocks) =>
           \/ pm_time' = pm_time
           \/ pm_time' = 0 /\ sw_pc = "start" /\ sw_source = "pressure"

C24_TimeAdvancesEveryBlock == [][C24_Step]_vars

(***************************************************************************)
(* C26.  No exception leaves the pressure callback or the microphone       *)
(* callback: a callback that meets an internal error, one raised while the *)
(* status flags are handled included, delivers a zero-filled block.        *)
(***************************************************************************)
C26_Step ==
    /\ (pm_blocks' = pm_blocks + 1 /\ pm_fault') =>
           ~pm_raised' /\ pm_outdata'.kind = "zeros"
    /\ (mic_blocks' = mic_blocks + 1 /\ mic_fault') =>
           ~mic_raised' /\ mic_outdata' = "zeros"

C26_NoExceptionLeavesCallback == [][C26_Step]_vars

(***************************************************************************)
(* C25.  After a start() of the microphone or the pressure model in which  *)
(* the device could not be opened or started (or the microphone has no     *)
(* input device), start() has not raised, the source's active flag is      *)
(* False and its stream is None, and what start() returned differs from    *)
(* what it returns after a successful start (None).                        *)
(***************************************************************************)
C25_FailureLeavesInactive ==
    (sw_pc = "idle" /\ start_failed) =>
        /\ ~start_raised
        /\ sw_source = "mic" => (~mic_active /\ mic_stream = "none")
        /\ sw_source = "pressure" => (~pm_active /\ pm_stream = "none")

C25_FailedStartReported ==
    /\ C25_FailureLeavesInactive
    /\ (sw_pc = "idle" /\ start_failed) => start_returned # "None"

(***************************************************************************)
(* C27.  The tube length the pressure model uses is positive whatever the  *)
(* tube parameters are, and no calculate_resonant_frequencies call on the  *)
(* configured tube raises.                                                 *)
(***************************************************************************)
C27_LengthClamped ==
    /\ pm_physics.tube_length > 0
    /\ tube_call.kind # "raised"

(***************************************************************************)
(* C28.  As stated: every sample written by ToneSynth.callback and by the  *)
(* pressure callback has a magnitude strictly below the soft-clip          *)
(* threshold 0.8.                                                          *)
(***************************************************************************)
C28_StrictlyBelowThreshold == clip_sample < SoftClipThreshold

(***************************************************************************)
(* C28, amended.  No sample exceeds the float32 value nearest to 0.8; a    *)
(* sample is strictly below it when the magnitude handed to soft_clip is   *)
(* below 7.216, and that is so for every ToneSynth sample with channel     *)
(* volumes of at most 1.0.                                                 *)
(***************************************************************************)
C28_BoundedByThreshold ==
    /\ clip_sample <= SoftClipThreshold
    /\ clip_input < SaturationInput => clip_sample < SoftClipThreshold
    /\ clip_source = "synth" =>
           /\ clip_input < SaturationInput
           /\ clip_sample < SoftClipThreshold

\* all eight channels unmuted at volume 1.0 and in phase, at the crest of the sine
C28_Witness ==
    /\ clip_source = "synth"
    /\ \A ch \in 1 .. SynthChannels :
           ~clip_settings[ch].muted /\ clip_settings[ch].volume = FullVolume
    /\ clip_input = SynthChannels * FullVolume * MASTER_VOLUME
    /\ clip_sample = SoftClipThreshold - 1

(***************************************************************************)
(* C29.  The matrix stores each T-network response with its sign, and the  *)
(* sum combine_frequency_pressures forms is the sum of the signed          *)
(* responses weighted by the amplitudes.                                   *)
(***************************************************************************)
C29_SignedSuperposition ==
    /\ sp_matrix = sp_signed
    /\ sp_combined # <<>> =>
           \A x \in 1 .. SuperposePositions :
               sp_combined[x] = WeightedSum(sp_signed, sp_amplitudes, x, SuperposeFreqs)

(***************************************************************************)
(* C30.  No step of ToneSynth.callback changes a channel's target          *)
(* frequency, volume or mute flag, whether or not a set_frequency or       *)
(* set_volume call fell between its snapshot and its write-back, so these  *)
(* stay the values last set; and a callback that starts renders from the   *)
(* targets and mute flags as they are at its snapshot.                     *)
(***************************************************************************)
C30_Step ==
    /\ (cb_pc' # cb_pc \/ blocks' # blocks) =>
           /\ frequencies' = frequencies
           /\ volumes' = volumes
           /\ muted' = muted
    /\ (cb_pc = "idle" /\ cb_pc' = "rendered") =>
           /\ local_target_frequencies' = frequencies
           /\ local_muted' = muted
           /\ outdata' = {ch \in Channels : ~muted[ch]}

C30_NoLostUpdate == [][C30_Step]_vars

\* a callback between its snapshot and its write-back, with a target frequency and a
\* mute flag set since the snapshot
C30_Witness ==
    /\ cb_pc = "rendered"
    /\ \E ch \in Channels :
           /\ local_target_frequencies[ch] # frequencies[ch]
           /\ local_muted[ch] # muted[ch]

(***************************************************************************)
(* C31.  Whenever a set_audio_source call has returned, the stream of the  *)
(* source named by current_source is the one that is active.               *)
(***************************************************************************)
C31_CurrentSourceIsActive ==
    sw_pc = "idle" => ActiveStreams = {current_source}

(***************************************************************************)
(* C32.  After start_animation has returned, for any earlier sequence of   *)
(* start_animation, stop_animation and reset calls, exactly one            *)
(* optimization loop is running as long as the animation stays active.     *)
(***************************************************************************)
C32_OneLoopWhileActive == (sw_pc = "idle" /\ t_active) => LoopsRunning = 1

(***************************************************************************)
(* C33.  update_volumes is idempotent: a call that is given the channel    *)
(* volumes and mute flags the call before it was given calls no            *)
(* synth.set_volume and no update of the pressure model, for every volume  *)
(* (0 included) and mute flag.                                             *)
(***************************************************************************)
C33_UpdateVolumesIdempotent == uv_repeat => (uv_forwarded = {} /\ ~uv_model_updated)

\* the same for the channels that are muted or have a volume above 0
C33_IdempotentUnlessSilentUnmuted ==
    (uv_repeat /\ \A ch \in Channels : uv_seen[1].mute[ch] \/ uv_seen[1].volume[ch] > 0) =>
        (uv_forwarded = {} /\ ~uv_model_updated)

(***************************************************************************)
(* C34.  Once a pass of the polling loop has run on the channel state as   *)
(* it now is, every synth channel's target is the channel's frequency      *)
(* clamped to [1, 20000] Hz, its mute flag is the channel's, and its       *)
(* volume is 0 when the channel is muted and the channel's volume          *)
(* otherwise: no change of a channel is missed.                            *)
(***************************************************************************)
\* the last update_volumes call and the last update_pitches call were given the channel
\* state as it now is
PassedSinceLastChange ==
    /\ uv_seen = <<[volume |-> state_volume, mute |-> state_mute]>>
    /\ up_seen = <<state_frequency>>

C34_SynthReflectsChannels ==
    PassedSinceLastChange =>
        \A ch \in Channels :
            /\ frequencies[ch] = Clamp(state_frequency[ch])
            /\ muted[ch] = state_mute[ch]
            /\ volumes[ch] = ChannelVolume(ch)

\* the same without the mute flag
C34_TargetsAndVolumesReflectChannels ==
    PassedSinceLastChange =>
        \A ch \in Channels :
            /\ frequencies[ch] = Clamp(state_frequency[ch])
            /\ volumes[ch] = ChannelVolume(ch)

(***************************************************************************)
(* C35.  In the linear-ramp ToneSynth the rendered frequency changes from  *)
(* the last sample of one block to the first sample of the next by no more *)
(* than the per-sample step of the ramp in force, also when set_frequency  *)
(* was called while a glide was in progress: the new ramp starts from the  *)
(* frequency being rendered.                                               *)
(***************************************************************************)
\* the per-sample step of the ramp in force
RampStep == Abs(ramp_target_freqs - ramp_interp_start_freqs) \div RampSamples

C35_Step ==
    (ramp_blocks' # ramp_blocks /\ ramp_last_freq # -1) =>
        Abs(ramp_first_freq' - ramp_last_freq) <= RampStep

C35_NoFrequencyJump == [][C35_Step]_vars

(***************************************************************************)
(* C36.  The amplitudes decompose_target returns solve the system          *)
(* regularized with the lambda_reg of that very call, also after an        *)
(* earlier call with the same physics parameters and another lambda_reg.   *)
(***************************************************************************)
C36_SolvedWithOwnLambda == reg_solved_lambda # -1 => reg_solved_lambda = reg_lambda

(***************************************************************************)
(* C37.  ToneSynth.callback leaves the phase and the current frequency of  *)
(* every channel that was muted when it took its snapshot unchanged, and   *)
(* adds nothing from it to the block: a muted channel does not glide, so   *)
(* after unmuting it starts from the frequency it had when it was muted.   *)
(***************************************************************************)
C37_Step ==
    /\ (cb_pc = "idle" /\ cb_pc' = "rendered") =>
           \A ch \in Channels :
               muted[ch] =>
                   /\ ch \notin outdata'
                   /\ local_phases'[ch] = phases[ch]
                   /\ local_current_frequencies'[ch] = current_frequencies[ch]
    /\ (cb_pc = "rendered" /\ cb_pc' = "idle") =>
           \A ch \in Channels :
               local_muted[ch] =>
                   /\ phases'[ch] = phases[ch]
                   /\ current_frequencies'[ch] = current_frequencies[ch]

C37_MutedChannelFrozen == [][C37_Step]_vars

\* a callback has rendered while a channel was muted away from its target
C37_Witness ==
    \E ch \in Channels :
        /\ cb_pc = "rendered"
        /\ local_muted[ch]
        /\ local_target_frequencies[ch] # current_frequencies[ch]

(***************************************************************************)
(* C38.  Every listener registered through register_update_callback is     *)
(* called by each later notify_channel_updated: a second registration does *)
(* not stop the first listener from being notified.                        *)
(***************************************************************************)
C38_Step ==
    notifications' # notifications => invoked' = registered

C38_AllListenersNotified == [][C38_Step]_vars

(***************************************************************************)
(* C39.  In the pygame engine, for every channel: at most one transition   *)
(* is in flight, at most one further change is pending in the queue, and   *)
(* once the update_pitches calls have stopped the channel's frequency      *)
(* eventually is the last requested frequency (the freq of line 102), with *)
(* an empty queue and no transition active.                                *)
(***************************************************************************)
OneTransitionOnePending ==
    \A ch \in Channels :
        /\ Len(pg_transitions[ch]) <= 1
        /\ Len(pg_frequency_change_queue[ch]) <= 1

PygameSettled ==
    \A ch \in Channels :
        /\ pg_frequencies[ch] = pg_requested[ch]
        /\ pg_frequency_change_queue[ch] = <<>>
        /\ pg_transitions[ch] = <<>>
        /\ ~pg_interpolation_active[ch]

C39_TransitionsSettle == []OneTransitionOnePending /\ <>[]PygameSettled

\* a request that arrived during a transition has been carried out after it
C39_Witness ==
    \E ch \in Channels :
        /\ pg_requests >= 2
        /\ PygameSettled
        /\ pg_frequencies[ch] # InitFreq

====
